---- MODULE Spec2Model ----
(***************************************************************************)
(* A model of the DCF valuation engine of investomommy-calhacks:           *)
(*   src/dcf/calc.py      the valuation primitive dcf_valuation            *)
(*   src/dcf/router.py    the valuate entry point get_dcf and its helpers  *)
(*   src/backend/dcf.py   the second get_dcf implementation                *)
(*                                                                         *)
(* Python floats are modelled as decimal floating-point numbers            *)
(*     [k |-> "f", m |-> m, x |-> x]   standing for   m * 10^x             *)
(* with a mantissa of 8 significant digits (10^7 <= |m| < 10^8, zero is    *)
(* m = 0, x = 0).  Every arithmetic operation rounds its result to 8       *)
(* digits, as every float operation rounds to 53 bits.  The normal form is *)
(* unique, so equality of values is equality of records.  None and NaN are *)
(* the records of kind "None" and "nan".                                   *)
(***************************************************************************)
EXTENDS Integers, Naturals, Sequences, FiniteSets, TLC

VARIABLES
    pc,         \* which entry point the caller uses
    todo,       \* the (WACC, growth) pairs the caller still has to value
    args,       \* keyword arguments of the current dcf_valuation call
    result,     \* what that call returned or raised
    prev,       \* the call before it (arguments and result)
    request,    \* the GET request in flight and what the data provider holds for its ticker
    response,   \* the HTTP response of the endpoint
    frame,      \* the local variables of the endpoint when it returned or raised
    store       \* the tables of the data store

vars == <<pc, todo, args, result, prev, request, response, frame, store>>

\* no data store in reach
NoStore == [ticker |-> <<>>, userticker |-> <<>>, constrained |-> FALSE]

(***************************************************************************)
(* Numbers                                                                 *)
(***************************************************************************)
None == [k |-> "None", m |-> 0, x |-> 0]
NaN  == [k |-> "nan", m |-> 0, x |-> 0]
Zero == [k |-> "f", m |-> 0, x |-> 0]

\* a value float() cannot convert, such as "abc"
Text == [k |-> "str", m |-> 0, x |-> 0]
IsText(v) == v.k = "str"
\* float("inf")
Inf == [k |-> "inf", m |-> 1, x |-> 0]
IsNum(v) == v.k = "f"
IsNone(v) == v.k = "None"

Abs(i) == IF i < 0 THEN -i ELSE i
Sgn(i) == IF i > 0 THEN 1 ELSE IF i < 0 THEN -1 ELSE 0

\* the number of decimal digits of a, 0 < a < 10^10
Digits(a) == 1 + Cardinality({j \in 1..9 : a >= 10^j})

\* m / 10^j rounded to a whole number, half away from zero
ShiftRound(m, j) == IF j = 0 THEN m ELSE Sgn(m) * ((Abs(m) + 5 * 10^(j - 1)) \div 10^j)

\* m * 10^x for an m of 8 digits, or for one that rounding has carried to 10^8
Carried(m, x) ==
    IF Abs(m) = 100000000 THEN [k |-> "f", m |-> m \div 10, x |-> x + 1]
    ELSE [k |-> "f", m |-> m, x |-> x]

\* m * 10^x for an m of d digits, brought to 8 digits
Sized(m, d, x) ==
    IF d <= 8 THEN [k |-> "f", m |-> m * 10^(8 - d), x |-> x - (8 - d)]
    ELSE Carried(ShiftRound(m, d - 8), x + (d - 8))

\* m * 10^x rounded to 8 significant digits (half away from zero), |m| < 2 * 10^9
Norm(m, x) == IF m = 0 THEN Zero ELSE Sized(m, Digits(Abs(m)), x)

Dec(m, x) == Norm(m, x)        \* the literal m * 10^x
Int2F(i) == Norm(i, 0)
Milli(i) == Norm(i, -3)        \* i / 1000
Bp(i) == Norm(i, -4)           \* i / 10000
One == Int2F(1)

Neg(v) == IF IsNum(v) THEN [v EXCEPT !.m = -@] ELSE NaN

\* the 16-digit product a * b of two 8-digit numbers, cut to its top 9 digits
Top9(a1, a0, b1, b0) == a1 * b1 * 10 + ((a1 * b0 + a0 * b1 + ((a0 * b0) \div 10000)) \div 1000)

\* x * y: the top 9 digits of the product, then rounded
Mul(v, w) ==
    IF v.k # "f" \/ w.k # "f" THEN NaN
    ELSE IF v.m = 0 \/ w.m = 0 THEN Zero
    ELSE Norm(Sgn(v.m) * Sgn(w.m) * Top9(Abs(v.m) \div 10000, Abs(v.m) % 10000,
                                         Abs(w.m) \div 10000, Abs(w.m) % 10000),
              v.x + w.x + 7)

\* long division by b, j more digits to go: qr.q the digits so far, qr.r the remainder
RECURSIVE LongDiv(_, _, _)
LongDiv(qr, b, j) ==
    IF j = 0 \/ qr.r = 0 THEN qr.q * 10^j
    ELSE LongDiv([q |-> qr.q * 10 + ((qr.r * 10) \div b), r |-> (qr.r * 10) % b], b, j - 1)

\* a / b for whole a, b > 0 with j digits after the point, times 10^j
Quotient(a, b, j) == LongDiv([q |-> a \div b, r |-> a % b], b, j)

\* x / y for x, y # 0, j digits of the quotient after the point
DivDigits(v, w, j) ==
    Norm(Sgn(v.m) * Sgn(w.m) * Quotient(Abs(v.m), Abs(w.m), j), v.x - w.x - j)

\* x / y for y # 0: 9 significant digits of the quotient, then rounded
Div(v, w) ==
    IF v.k # "f" \/ w.k # "f" \/ w.m = 0 THEN NaN
    ELSE IF v.m = 0 THEN Zero
    ELSE DivDigits(v, w, IF Abs(v.m) < Abs(w.m) THEN 9 ELSE 8)

\* x + y with one guard digit, x the one with the larger exponent, gap digits apart
AddAligned(big, sml, gap) ==
    IF gap >= 10 THEN big
    ELSE Norm(big.m * 10 + (IF gap = 0 THEN sml.m * 10 ELSE ShiftRound(sml.m, gap - 1)),
              big.x - 1)

\* x + y
Add(v, w) ==
    IF v.k # "f" \/ w.k # "f" THEN NaN
    ELSE IF v.m = 0 THEN w
    ELSE IF w.m = 0 THEN v
    ELSE AddAligned(IF v.x >= w.x THEN v ELSE w, IF v.x >= w.x THEN w ELSE v, Abs(v.x - w.x))

Sub(v, w) == Add(v, Neg(w))

\* x < y; as in Python, any comparison with NaN is false
RECURSIVE Less(_, _)
Less(v, w) ==
    IF v.k # "f" \/ w.k # "f" THEN FALSE
    ELSE IF v.m < 0 /\ w.m < 0 THEN Less([w EXCEPT !.m = -@], [v EXCEPT !.m = -@])
    ELSE IF v.m <= 0 \/ w.m <= 0 THEN v.m < w.m
    ELSE v.x < w.x \/ (v.x = w.x /\ v.m < w.m)

Leq(v, w) == IsNum(v) /\ IsNum(w) /\ ~Less(w, v)

\* Python's max(a, b) and min(a, b): the first argument unless the second beats it
PyMax(a, b) == IF Less(a, b) THEN b ELSE a
PyMin(a, b) == IF Less(b, a) THEN b ELSE a

RECURSIVE PowF(_, _)
PowF(v, j) == IF j = 0 THEN One ELSE Mul(v, PowF(v, j - 1))

RECURSIVE Newton(_, _, _)
\* the iteration goes on from the estimate nxt unless it has settled on s
NewtonStep(v, s, nxt, j) == IF nxt = s THEN s ELSE Newton(v, nxt, j - 1)

\* Newton's iteration for the square root of v > 0, j rounds from the estimate s
Newton(v, s, j) ==
    IF j = 0 THEN s ELSE NewtonStep(v, s, Mul(Add(s, Div(v, s)), Dec(5, -1)), j)

\* the square root of a v between 1 and 2
SqrtF(v) == Newton(v, v, 4)

(***************************************************************************)
(* src/dcf/calc.py                                                         *)
(***************************************************************************)
\* base ** (expo2 / 2)
HalfPower(base, expo2) ==
    IF expo2 % 2 = 0 THEN PowF(base, expo2 \div 2)
    ELSE Mul(PowF(base, expo2 \div 2), SqrtF(base))

\* simple instead of compound interest: 1 / (1 + rate * t)
SimpleDiscount(rate, expo2) ==
    Div(One, Add(One, Mul(rate, Mul(Int2F(expo2), Dec(5, -1)))))

\* (1.0 + rate) ** (-t), the exponent t given in half years (expo2 = 2 t)
_discount_factor(rate, expo2) == Div(One, HalfPower(Add(One, rate), expo2))

\* the growth _terminal_value goes on with after its guard
GrowthUsed(rate, growth) == IF Leq(rate, growth) THEN Sub(rate, Milli(1)) ELSE growth

\* a terminal value that leaves the growth out: last_fcff / rate
TerminalNoGrowth(last_fcff, rate, growth) == Div(last_fcff, rate)

\* last_fcff * (1.0 + growth) / (rate - growth)
Gordon(last_fcff, rate, growth) == Div(Mul(last_fcff, Add(One, growth)), Sub(rate, growth))

_terminal_value(last_fcff, rate, growth) == Gordon(last_fcff, rate, GrowthUsed(rate, growth))

\* a bridge with cash and debt the wrong way round
EquitySwapped(enterprise_value, cash, debt) == Add(Sub(enterprise_value, cash), debt)

\* equity_value = enterprise_value + cash - debt
equity_value(enterprise_value, cash, debt) == Sub(Add(enterprise_value, cash), debt)

RECURSIVE SumPv(_, _, _, _)
\* pv_explicit after the loop of dcf_valuation has run over the first idx years
SumPv(fcff, rate, midyear, idx) ==
    IF idx = 0 THEN Zero
    ELSE Add(SumPv(fcff, rate, midyear, idx - 1),
             Mul(fcff[idx], _discount_factor(rate, IF midyear THEN 2 * idx - 1 ELSE 2 * idx)))

Raised(exc) == [raised |-> exc]

\* float(x or 0.0)
OrZero(x) == IF IsNone(x) THEN Zero ELSE x

\* the terminal value and its present value, n the horizon
TerminalPv(tv, rate, midyear, n) ==
    [tv |-> tv, pv_tv |-> Mul(tv, _discount_factor(rate, IF midyear THEN 2 * n - 1 ELSE 2 * n))]

\* enterprise value, equity value, per-share value and the dict returned, from the
\* present values pv_explicit and term.pv_tv
ValuationOut(pv_explicit, term, rate, growth, midyear, cash_f, debt_f, shares_norm) ==
    LET enterprise_value == Add(pv_explicit, term.pv_tv)
        equity == equity_value(enterprise_value, cash_f, debt_f)
        intrinsic_value_per_share == Div(equity, shares_norm)
    IN  [raised |-> "",
         pv_explicit |-> pv_explicit,
         terminal_value |-> term.tv,
         pv_terminal |-> term.pv_tv,
         enterprise_value |-> enterprise_value,
         equity_value |-> equity,
         intrinsic_value_per_share |-> intrinsic_value_per_share,
         assumptions |-> [wacc |-> rate, terminal_growth |-> growth, midyear |-> midyear,
                          cash |-> cash_f, debt |-> debt_f, shares_out |-> shares_norm]]

\* dcf_valuation(fcff=..., wacc=..., ...): the dict returned or the exception raised;
\* (1.0 + rate) ** (-t) raises ZeroDivisionError for a rate of -1.0
dcf_valuation(fcff, wacc, terminal_growth, midyear, cash, debt, shares_out) ==
    IF Len(fcff) = 0 THEN Raised("ValueError")
    ELSE IF IsNone(wacc) THEN Raised("ValueError")
    ELSE IF IsNone(terminal_growth) THEN Raised("ValueError")
    ELSE IF Add(One, wacc) = Zero THEN Raised("ZeroDivisionError")
    ELSE ValuationOut(SumPv(fcff, wacc, midyear, Len(fcff)),
                      TerminalPv(_terminal_value(fcff[Len(fcff)], wacc, terminal_growth),
                                 wacc, midyear, Len(fcff)),
                      wacc, terminal_growth, midyear, OrZero(cash), OrZero(debt),
                      IF IsNone(shares_out) \/ Leq(shares_out, Zero)
                      THEN Dec(1, -6) ELSE shares_out)

\* the keys of the dict a call returned
Keys(out) == DOMAIN out \ {"raised"}
Returned(out) == out.raised = ""

(***************************************************************************)
(* Python and numpy idioms shared by src/dcf/router.py and                 *)
(* src/backend/dcf.py                                                      *)
(***************************************************************************)
\* math.isfinite / np.isfinite: no operation of these modules yields an infinity
IsFinite(v) == IsNum(v)
\* bool(x): None and 0.0 are falsy, NaN is truthy
Truthy(v) == ~IsNone(v) /\ ~(IsNum(v) /\ v.m = 0)
\* x or y
PyOr(a, b) == IF Truthy(a) THEN a ELSE b
AbsF(v) == IF IsNum(v) THEN [v EXCEPT !.m = Abs(v.m)] ELSE v
Geq(v, w) == Leq(w, v)
Greater(v, w) == Less(w, v)

RECURSIVE SumF(_)
\* the values of a list added up from the first to the last
SumF(vals) ==
    IF vals = <<>> THEN Zero
    ELSE Add(SumF(SubSeq(vals, 1, Len(vals) - 1)), vals[Len(vals)])

RECURSIVE NewtonRoot(_, _, _, _)
\* the iteration goes on from the estimate nxt unless it has settled on s
NewtonNext(v, n, s, nxt, j) == IF nxt = s THEN s ELSE NewtonRoot(v, n, nxt, j - 1)

\* Newton's iteration for the n-th root of v > 0, j rounds from the estimate s
NewtonRoot(v, n, s, j) ==
    IF j = 0 THEN s
    ELSE NewtonNext(v, n, s, Div(Add(Mul(Int2F(n - 1), s), Div(v, PowF(s, n - 1))), Int2F(n)), j)

\* v ** (1.0 / n) for v > 0
RootF(v, n) == IF n = 1 THEN v ELSE NewtonRoot(v, n, PyMax(One, v), 12)

\* safe(val, default): float(val) unless val is None
safe(val, default) == IF IsNone(val) THEN default ELSE val

\* clamp(x, lo, hi) = max(lo, min(hi, x)); a NaN x comes out as hi
clamp(x, lo, hi) == PyMax(lo, PyMin(hi, x))

\* _clean_num(x): a finite float or None
_clean_num(x) == IF IsFinite(x) THEN x ELSE None

(***************************************************************************)
(* A yf.Ticker as the handlers see it.  A statement table is a function    *)
(* from the row labels to the row's values, most recent first; a label the *)
(* table does not have maps to <<>>, and a table that is None or empty has *)
(* no label at all.  A missing cell is NaN.                                *)
(***************************************************************************)
RowLabels ==
    {"Income Tax Expense", "Income Before Tax", "Ebit", "Operating Income",
     "Interest Expense", "Total Revenue", "Total Debt", "Total Assets",
     "Total Current Assets", "Total Current Liabilities",
     "Cash And Cash Equivalents", "Cash", "Short Long Term Debt",
     "Short/Current Long Term Debt", "Cash And Short Term Investments",
     "Short Term Investments", "Marketable Securities", "Depreciation",
     "Depreciation & Amortization", "Depreciation Amortization Depletion",
     "DepreciationAndAmortization", "Capital Expenditures", "Free Cash Flow",
     "Total Cash From Operating Activities", "InterestExpense",
     "Interest Expense Non Operating"}
NoTable == [l \in RowLabels |-> <<>>]
\* df is None or df.empty
IsEmpty(df) == \A l \in RowLabels : df[l] = <<>>
\* name in df.index
InIndex(df, name) == df[name] # <<>>

\* _row(df, name): the row, <<>> standing for None
_row(df, name) == df[name]

\* _first(row): float(row.iloc[0]), NaN without a row
_first(row) == IF row = <<>> THEN NaN ELSE row[1]

\* row.dropna()
DropNa(row) == SelectSeq(row, IsNum)
FirstN(vals, n) == SubSeq(vals, 1, IF Len(vals) < n THEN Len(vals) ELSE n)

\* _series_vals(row, max_n): up to max_n values, most recent first
_series_vals(row, max_n) == FirstN(DropNa(row), max_n)

\* _qsum(row, n): np.nansum of the first n values left after dropna; NaN without a row
_qsum(row, n) == IF row = <<>> THEN NaN ELSE SumF(FirstN(DropNa(row), n))

(***************************************************************************)
(* src/dcf/router.py: market and risk inputs                               *)
(***************************************************************************)
\* fetch_risk_free_rate(), close the last ^TNX close or None when there is none
fetch_risk_free_rate(close) ==
    IF IsNum(close) THEN clamp(Div(close, Int2F(100)), Milli(20), Milli(70))
    ELSE Milli(40)

compute_effective_tax_rate(tkr) ==
    LET fin == tkr.financials
        tax == safe(_first(_row(fin, "Income Tax Expense")), NaN)
        pre == safe(_first(_row(fin, "Income Before Tax")), NaN)
    IN  IF ~IsEmpty(fin) /\ IsFinite(tax) /\ IsFinite(pre) /\ pre.m # 0
        THEN clamp(Div(tax, pre), Zero, Milli(350))
        ELSE Milli(210)

\* b and src of compute_beta
BetaBranch(b_hist, b_info, has_hist, has_info) ==
    IF has_hist /\ has_info
    THEN [b |-> Add(Mul(Milli(700), b_hist), Mul(Milli(300), b_info)),
          src |-> "blend(70% hist, 30% info)"]
    ELSE IF has_hist THEN [b |-> b_hist, src |-> "historical"]
    ELSE IF has_info THEN [b |-> b_info, src |-> "info"]
    ELSE [b |-> One, src |-> "fallback"]

\* b_info of compute_beta: None when float(b_info_raw) raises
ProviderBeta(b_info_raw) ==
    IF IsNone(b_info_raw) \/ IsText(b_info_raw) THEN None
    ELSE clamp(b_info_raw, Milli(200), Int2F(3))

\* what compute_beta returns: the beta and diag["source"]
BetaOut(br) == [raised |-> "", beta |-> clamp(br.b, Milli(200), Int2F(3)), source |-> br.src]

\* compute_beta from has_hist on
BetaFrom(b_hist, b_info) ==
    BetaOut(BetaBranch(b_hist, b_info, IsFinite(b_hist), ~IsNone(b_info)))

\* compute_beta(info, ticker) with its diagnostic, b_hist what
\* compute_beta_historical returned
compute_beta_call(info, b_hist) == BetaFrom(b_hist, ProviderBeta(info.beta))

\* the beta of compute_beta(info, ticker)
compute_beta(info, b_hist) == compute_beta_call(info, b_hist).beta

market_risk_premium_with_size(info, base_mrp) ==
    LET mc == safe(info.marketCap, Zero)
        adj == IF Geq(mc, Dec(5, 11)) THEN Neg(Milli(5))
               ELSE IF Truthy(mc) /\ Leq(mc, Dec(1, 10)) THEN Milli(10)
               ELSE Zero
    IN  clamp(Add(base_mrp, adj), Milli(35), Milli(70))

compute_cost_of_equity(rf, beta, mrp) ==
    clamp(Add(rf, Mul(beta, mrp)), Milli(50), Milli(160))

\* the spread compute_cost_of_debt_after_tax reads off an interest coverage
CoverageSpread(coverage) ==
    IF Geq(coverage, Int2F(12)) THEN Milli(10)
    ELSE IF Geq(coverage, Int2F(8)) THEN Milli(15)
    ELSE IF Geq(coverage, Int2F(6)) THEN Milli(20)
    ELSE IF Geq(coverage, Int2F(4)) THEN Milli(25)
    ELSE IF Geq(coverage, Int2F(3)) THEN Milli(30)
    ELSE IF Geq(coverage, Int2F(2)) THEN Milli(40)
    ELSE IF Geq(coverage, Int2F(1)) THEN Milli(60)
    ELSE Milli(80)

\* what compute_cost_of_debt_after_tax returns: pretax * (1.0 - tax_rate) and, of
\* diag, the method, the pre-tax rate and the coverage (None but in route 2)
CodOut(pretax, tax_rate, method, coverage) ==
    [rate |-> Mul(pretax, Sub(One, tax_rate)), method |-> method,
     pretax_cod |-> pretax, coverage |-> coverage]

\* "Fallback" of compute_cost_of_debt_after_tax
CodFallback(tax_rate, rf) ==
    CodOut(clamp(Add(rf, Milli(15)), Milli(30), Milli(120)), tax_rate, "fallback", None)

\* route 2 from its coverage on
CodCoverage(tax_rate, rf, coverage) ==
    CodOut(clamp(Add(rf, CoverageSpread(coverage)), Milli(30), Milli(160)), tax_rate,
           "coverage->spread", coverage)

\* compute_cost_of_debt_after_tax(tkr, tax_rate, rf) when nothing in its try raises
compute_cost_of_debt_after_tax(tkr, tax_rate, rf) ==
    LET fin_q == tkr.quarterly_financials
        bs_q == tkr.quarterly_balance_sheet
        int_row == _row(fin_q, "Interest Expense")
        debt_row == _row(bs_q, "Total Debt")
        interest_4q == _qsum(int_row, 4)
        debt_vals == _series_vals(debt_row, 4)
        avg_debt == IF Len(debt_vals) > 0
                    THEN Div(SumF(debt_vals), Int2F(Len(debt_vals))) ELSE NaN
        fin == tkr.financials
        ebit1 == IF ~IsEmpty(fin) THEN _first(_row(fin, "Ebit")) ELSE NaN
        ebit == IF ~IsFinite(ebit1) /\ ~IsEmpty(fin)
                THEN _first(_row(fin, "Operating Income")) ELSE ebit1
        interest_exp == IF ~IsEmpty(fin) THEN _first(_row(fin, "Interest Expense")) ELSE NaN
    IN  IF /\ int_row # <<>> /\ debt_row # <<>>
           /\ IsFinite(interest_4q) /\ IsFinite(avg_debt) /\ Greater(avg_debt, Zero)
        THEN CodOut(clamp(Div(AbsF(interest_4q), avg_debt), Milli(10), Milli(120)), tax_rate,
                    "avg(Interest_TTM)/avg(Debt_4Q)", None)
        ELSE IF IsFinite(ebit) /\ IsFinite(interest_exp) /\ interest_exp.m # 0
        THEN CodCoverage(tax_rate, rf, AbsF(Div(ebit, interest_exp)))
        ELSE CodFallback(tax_rate, rf)

\* a call of compute_cost_of_debt_after_tax; raises tells that reading the
\* quarterly statements in route 1 raises, which "except Exception: pass" takes
\* to the fallback
cost_of_debt_call(tkr, tax_rate, rf, raises) ==
    IF raises THEN CodFallback(tax_rate, rf)
    ELSE compute_cost_of_debt_after_tax(tkr, tax_rate, rf)

\* the weighted average of compute_wacc returned without the clamp
WaccUnclamped(info, coe, cod_after_tax) ==
    LET E == PyMax(safe(info.marketCap, Zero), Zero)
        D == PyMax(safe(info.totalDebt, Zero), Zero)
        V == Add(E, D)
    IN  IF Leq(V, Zero) THEN coe
        ELSE Add(Mul(Div(E, V), coe), Mul(Div(D, V), cod_after_tax))

compute_wacc(info, coe, cod_after_tax) ==
    LET E == PyMax(safe(info.marketCap, Zero), Zero)
        D == PyMax(safe(info.totalDebt, Zero), Zero)
        V == Add(E, D)
    IN  IF Leq(V, Zero) THEN coe
        ELSE clamp(Add(Mul(Div(E, V), coe), Mul(Div(D, V), cod_after_tax)),
                   Milli(50), Milli(150))

\* v if it is finite, else 0.0: one term of the extras of compute_cash_like
FiniteOrZero(v) == IF IsFinite(v) THEN v ELSE Zero

compute_cash_like(info, bs) ==
    LET cash == safe(info.totalCash, Zero)
        extras == Add(Add(FiniteOrZero(_first(_row(bs, "Cash And Short Term Investments"))),
                          FiniteOrZero(_first(_row(bs, "Short Term Investments")))),
                      FiniteOrZero(_first(_row(bs, "Marketable Securities"))))
    IN  IF ~IsEmpty(bs) THEN PyMax(cash, extras) ELSE cash

(***************************************************************************)
(* src/dcf/router.py: the starting FCFF, the growths and the paths         *)
(***************************************************************************)
\* a[i] of compute_delta_nwc_quarterly's v(a, i), with i counted from 1
ValueAt(a, i) == IF i <= Len(a) THEN a[i] ELSE Zero
\* a or b, of two lists
ListOr(a, b) == IF a # <<>> THEN a ELSE b

compute_delta_nwc_quarterly(bs_q) ==
    LET series_vals(name) == _series_vals(_row(bs_q, name), 2)
        tca == series_vals("Total Current Assets")
        tcl == series_vals("Total Current Liabilities")
        cash == ListOr(series_vals("Cash And Cash Equivalents"), series_vals("Cash"))
        std == ListOr(series_vals("Short Long Term Debt"),
                      series_vals("Short/Current Long Term Debt"))
        nwc(i) == Sub(Sub(ValueAt(tca, i), ValueAt(cash, i)),
                      Sub(ValueAt(tcl, i), ValueAt(std, i)))
    IN  IF IsEmpty(bs_q) THEN Zero ELSE Sub(nwc(1), nwc(2))

RECURSIVE LabelQsum(_, _, _)
\* the loops "for lab in [...]: if lab in df.index: x = _qsum(...); if finite: break"
LabelQsum(df, labs, cur) ==
    IF labs = <<>> THEN cur
    ELSE IF InIndex(df, Head(labs))
         THEN LET q == _qsum(_row(df, Head(labs)), 4)
              IN  IF IsFinite(q) THEN q ELSE LabelQsum(df, Tail(labs), q)
         ELSE LabelQsum(df, Tail(labs), cur)

EbitLabels == <<"Ebit", "Operating Income">>
DaLabels == <<"Depreciation", "Depreciation & Amortization",
              "Depreciation Amortization Depletion", "DepreciationAndAmortization">>

\* diag["components"] of fcff_from_statements
TtmComponents(fin_q, cf_q, bs_q) ==
    [EBIT_TTM |-> LabelQsum(fin_q, EbitLabels, NaN),
     DA_TTM |-> LabelQsum(cf_q, DaLabels, NaN),
     CapEx_TTM |-> IF InIndex(cf_q, "Capital Expenditures")
                   THEN AbsF(_qsum(_row(cf_q, "Capital Expenditures"), 4)) ELSE NaN,
     dNWC_TTM |-> compute_delta_nwc_quarterly(bs_q)]

\* what fcff_from_statements returns: fcff0 and, of diag, the method and the components
FcffDiag(fcff0, method, components) ==
    [fcff0 |-> fcff0, method |-> method, components |-> components]

\* fcff_from_statements from "FCFF_TTM" on, c the components and cf tkr.cashflow
FcffMethod(tkr, eff_tax, c, cf, ocf) ==
    IF /\ IsFinite(c.EBIT_TTM) /\ IsFinite(c.DA_TTM) /\ IsFinite(c.CapEx_TTM)
       /\ IsFinite(c.dNWC_TTM)
    THEN FcffDiag(Sub(Sub(Add(Mul(c.EBIT_TTM, Sub(One, eff_tax)), c.DA_TTM), c.CapEx_TTM),
                      c.dNWC_TTM),
                  "EBIT(1-T)+DA-CapEx-dNWC (TTM, quarterly)", c)
    ELSE IF InIndex(cf, "Free Cash Flow") /\ _series_vals(_row(cf, "Free Cash Flow"), 1) # <<>>
    THEN FcffDiag(_series_vals(_row(cf, "Free Cash Flow"), 1)[1],
                  "Fallback annual Free Cash Flow", c)
    ELSE IF IsFinite(ocf) /\ IsFinite(c.CapEx_TTM)
    THEN FcffDiag(Sub(ocf, c.CapEx_TTM), "Fallback OCF - CapEx", c)
    ELSE FcffDiag(safe(PyOr(tkr.info.freeCashflow, tkr.info.operatingCashflow), Zero),
                  "Fallback info.freeCashflow/operatingCashflow", c)

\* fcff_from_statements(tkr, eff_tax): the starting FCFF and diag
fcff_from_statements(tkr, eff_tax) ==
    FcffMethod(tkr, eff_tax,
               TtmComponents(tkr.quarterly_financials, tkr.quarterly_cashflow,
                             tkr.quarterly_balance_sheet),
               tkr.cashflow,
               IF ~IsEmpty(tkr.cashflow)
               THEN _first(_row(tkr.cashflow, "Total Cash From Operating Activities"))
               ELSE NaN)

\* a complex number: what ** gives for a negative base and a fractional exponent
Complex == [k |-> "complex", m |-> 0, x |-> 0]
IsComplex(v) == v.k = "complex"

\* ratio ** (1.0 / n) - 1.0
RatioCagr(ratio, n) ==
    IF ratio.m = 0 THEN Neg(One)
    ELSE IF ratio.m < 0 THEN (IF n = 1 THEN Sub(ratio, One) ELSE Complex)
    ELSE Sub(RootF(ratio, n), One)

\* (recent / oldest) ** (1.0 / n) - 1.0, for oldest > 0
Cagr(recent, oldest, n) == RatioCagr(Div(recent, oldest), n)

\* len(hist) >= 2 and hist[-1] > 0, of a history with the most recent value first
HasCagr(hist) == Len(hist) >= 2 /\ Greater(hist[Len(hist)], Zero)

\* the CAGR from the oldest to the most recent value, where estimate_growths takes one
HistCagr(hist) ==
    IF HasCagr(hist) THEN Cagr(hist[1], hist[Len(hist)], Len(hist) - 1) ELSE NaN

\* 1.25 ** (i / horizon): a factor that grows with i
DecayInverted(i, horizon) ==
    IF i = horizon THEN Dec(125, -2) ELSE PowF(RootF(Dec(125, -2), horizon), i)

\* 0.8 ** (i / horizon)
Decay(i, horizon) ==
    IF i = horizon THEN Milli(800) ELSE PowF(RootF(Milli(800), horizon), i)

\* g_used of estimate_growths
BlendedGrowth(g_fcff_hist, g_rev_cagr) ==
    IF IsFinite(g_rev_cagr)
    THEN clamp(Add(Mul(Milli(700), g_fcff_hist), Mul(Milli(300), g_rev_cagr)),
               Neg(Milli(50)), Milli(200))
    ELSE g_fcff_hist

\* the growths estimate_growths returns, g_used blended from the two histories
DecayedGrowths(g_fcff_hist, g_rev_cagr, g_used, horizon) ==
    [raised |-> "",
     g_fcff_hist |-> g_fcff_hist,
     g_rev_cagr |-> IF IsFinite(g_rev_cagr) THEN g_rev_cagr ELSE None,
     g_used |-> g_used,
     growth_path |-> [i \in 1..horizon |-> Mul(g_used, Decay(i, horizon))]]

\* estimate_growths once the two clamped growths are known
BlendGrowths(g_fcff_hist, g_rev_cagr, horizon) ==
    DecayedGrowths(g_fcff_hist, g_rev_cagr, BlendedGrowth(g_fcff_hist, g_rev_cagr), horizon)

\* estimate_growths from the two histories and their CAGRs; clamp raises TypeError
\* on a complex CAGR
ClampGrowths(fcff_hist, fcff_cagr, rev, rev_cagr, horizon) ==
    IF IsComplex(fcff_cagr) \/ IsComplex(rev_cagr) THEN Raised("TypeError")
    ELSE BlendGrowths(IF HasCagr(fcff_hist) THEN clamp(fcff_cagr, Zero, Milli(250))
                      ELSE Milli(60),
                      IF HasCagr(rev) THEN clamp(rev_cagr, Neg(Milli(200)), Milli(250))
                      ELSE NaN,
                      horizon)

\* the growths of the two histories fcff_hist and rev
HistoryGrowths(fcff_hist, rev, horizon) ==
    ClampGrowths(fcff_hist, HistCagr(fcff_hist), rev, HistCagr(rev), horizon)

\* estimate_growths(tkr, horizon)
estimate_growths(tkr, horizon) ==
    HistoryGrowths(_series_vals(_row(tkr.cashflow, "Free Cash Flow"), 5),
                   _series_vals(_row(tkr.financials, "Total Revenue"), 5), horizon)

\* tg of compute_terminal_growth_enhanced after the margin nudge, before the guardrails
NudgedGrowth(rf, g_hist, rev_cagr, margins) ==
    LET base_nominal == Milli(40)
        growth_signal == IF ~IsNone(rev_cagr) /\ IsFinite(rev_cagr)
                         THEN PyMax(g_hist, rev_cagr) ELSE g_hist
        tg == Add(Add(Mul(Milli(400), base_nominal),
                      Mul(Milli(400), clamp(rf, Milli(20), Milli(50)))),
                  Mul(Milli(200), clamp(growth_signal, Zero, Milli(80))))
    IN  IF ~IsNone(margins) /\ IsFinite(margins)
        THEN IF Greater(margins, Milli(250)) THEN Add(tg, Milli(3))
             ELSE IF Less(margins, Milli(100)) THEN Sub(tg, Milli(3))
             ELSE tg
        ELSE tg

\* compute_terminal_growth_enhanced with guardrails of 2% and 6%
TerminalGrowthToSix(rf, g_hist, rev_cagr, margins) ==
    clamp(NudgedGrowth(rf, g_hist, rev_cagr, margins), Milli(20), Milli(60))

compute_terminal_growth_enhanced(rf, g_hist, rev_cagr, margins) ==
    clamp(NudgedGrowth(rf, g_hist, rev_cagr, margins), Milli(20), Milli(50))

\* tg_used of get_dcf
TgUsed(terminal_growth, tg_auto) ==
    IF ~IsNone(terminal_growth) THEN clamp(terminal_growth, Milli(10), Milli(60)) ELSE tg_auto

\* D / V0 of build_wacc_path
DebtWeight(E, D) == Div(D, IF Greater(Add(E, D), Zero) THEN Add(E, D) ELSE One)

\* year t of build_wacc_path from its beta_t, coe_t and wd_t
WaccYearOut(beta_t, coe_t, wd_t, we_t, cod_after_tax) ==
    [beta_t |-> beta_t, coe |-> coe_t, wd |-> wd_t, we |-> we_t,
     wacc |-> clamp(Add(Mul(we_t, coe_t), Mul(wd_t, cod_after_tax)), Milli(50), Milli(150))]

WaccYearWeights(beta_t, wd_t, rf, mrp, cod_after_tax) ==
    WaccYearOut(beta_t, clamp(Add(rf, Mul(beta_t, mrp)), Milli(50), Milli(160)),
                wd_t, clamp(Sub(One, wd_t), Milli(50), Milli(990)), cod_after_tax)

\* the body of the loop "for t in range(1, years + 1)"
WaccYear(t, years, base_beta, rf, mrp, cod_after_tax, wd0, wd_target) ==
    WaccYearWeights(Add(One, Mul(Sub(base_beta, One), PowF(Milli(850), t))),
                    clamp(Add(wd0, Mul(Sub(wd_target, wd0), Div(Int2F(t), Int2F(years)))),
                          Zero, Milli(950)),
                    rf, mrp, cod_after_tax)

\* the three lists build_wacc_path returns, from the years of its loop
WaccPathOut(rows) ==
    [waccs |-> [t \in DOMAIN rows |-> rows[t].wacc],
     coes |-> [t \in DOMAIN rows |-> rows[t].coe],
     weights |-> [t \in DOMAIN rows |->
                     [we |-> rows[t].we, wd |-> rows[t].wd, beta_t |-> rows[t].beta_t]]]

\* build_wacc_path from the starting debt weight wd0
WaccPathFrom(base_beta, rf, mrp, cod_after_tax, years, wd0, is_mega) ==
    WaccPathOut([t \in 1..years |->
        WaccYear(t, years, base_beta, rf, mrp, cod_after_tax, wd0,
                 clamp(Mul(wd0, IF is_mega THEN Milli(900) ELSE One), Zero, Milli(950)))])

\* build_wacc_path with E and D read
WaccPathOf(base_beta, rf, mrp, cod_after_tax, years, E, D) ==
    WaccPathFrom(base_beta, rf, mrp, cod_after_tax, years, DebtWeight(E, D),
                 Geq(E, Dec(5, 11)))

\* build_wacc_path(base_beta, rf, mrp, cod_after_tax, info, years): per year the
\* WACC, the cost of equity and the weights
build_wacc_path(base_beta, rf, mrp, cod_after_tax, info, years) ==
    WaccPathOf(base_beta, rf, mrp, cod_after_tax, years,
               PyMax(safe(info.marketCap, Zero), Zero), PyMax(safe(info.totalDebt, Zero), Zero))

RECURSIVE CumDiscount(_, _)
\* the running product of 1 / (1 + waccs[j]) over the first i years
CumDiscount(waccs, i) ==
    IF i = 0 THEN One
    ELSE Mul(CumDiscount(waccs, i - 1), Div(One, Add(One, waccs[i])))

\* the factors with a whole period in the last step whatever the midyear flag
FullYearFactors(waccs, midyear) ==
    [i \in 1..Len(waccs) |-> Div(CumDiscount(waccs, i - 1), Add(One, waccs[i]))]

discount_factors_varying_wacc(waccs, midyear) ==
    [i \in 1..Len(waccs) |->
        Div(CumDiscount(waccs, i - 1),
            IF midyear THEN SqrtF(Add(One, waccs[i])) ELSE Add(One, waccs[i]))]

RECURSIVE SumProducts(_, _, _)
\* sum(fcff[i] * dfs[i]) over the first i years
SumProducts(fcff, dfs, i) ==
    IF i = 0 THEN Zero
    ELSE Add(SumProducts(fcff, dfs, i - 1), Mul(fcff[i], dfs[i]))

\* what pv_with_varying_wacc returns, from the discount factors and the terminal value
VaryingPv(fcff, waccs, dfs, tv) ==
    [dfs |-> dfs,
     tv |-> tv,
     pv_tv |-> Mul(tv, CumDiscount(waccs, Len(waccs))),
     pv_explicit |-> SumProducts(fcff, dfs, Len(fcff))]

pv_with_varying_wacc(fcff, waccs, midyear, terminal_growth) ==
    VaryingPv(fcff, waccs, discount_factors_varying_wacc(waccs, midyear),
              Div(Mul(fcff[Len(fcff)], Add(One, terminal_growth)),
                  PyMax(Sub(waccs[Len(waccs)], terminal_growth), Dec(1, -6))))

estimate_roic_and_reinvestment(tkr) ==
    LET fin_q == tkr.quarterly_financials
        bs_q == tkr.quarterly_balance_sheet
        ta == PyOr(_first(_row(bs_q, "Total Assets")), NaN)
        tcl == PyOr(_first(_row(bs_q, "Total Current Liabilities")), Zero)
        cash_like == compute_cash_like(tkr.info, bs_q)
    IN  [nopat_ttm |-> LabelQsum(fin_q, EbitLabels, NaN),
         invested_capital |-> IF ~IsEmpty(bs_q) /\ IsFinite(ta)
                              THEN PyMax(Sub(Sub(ta, tcl), cash_like), One) ELSE NaN]

RECURSIVE NaivePath(_, _, _)
\* the FCFF levels grown from lvl by the growths from index i on
NaivePath(lvl, growth_path, i) ==
    IF i > Len(growth_path) THEN <<>>
    ELSE LET nxt == Mul(lvl, Add(One, growth_path[i]))
         IN  <<nxt>> \o NaivePath(nxt, growth_path, i + 1)

RECURSIVE RoicPath(_, _, _, _)
\* the FCFF of year i, NOPAT n1 less its reinvestment, and the years after it
RoicYear(n1, roic, growth_path, i) ==
    <<Sub(n1, clamp(Mul(Div(growth_path[i], PyMax(roic, Dec(1, -6))), n1),
                    Zero, Mul(n1, Milli(900))))>>
        \o RoicPath(n1, roic, growth_path, i + 1)

\* NOPAT grown by the growths from index i on, less the reinvestment of each year
RoicPath(nopat, roic, growth_path, i) ==
    IF i > Len(growth_path) THEN <<>>
    ELSE RoicYear(Mul(nopat, Add(One, growth_path[i])), roic, growth_path, i)

\* not (isfinite(nopat0_raw) and isfinite(ic) and ic > 0), of what
\* estimate_roic_and_reinvestment returned
NaiveEstimate(est) ==
    ~(/\ IsFinite(safe(est.nopat_ttm, NaN))
      /\ IsFinite(safe(est.invested_capital, NaN))
      /\ Greater(safe(est.invested_capital, NaN), Zero))

\* the path is grown from fcff0, not from NOPAT
NaiveMode(tkr) == NaiveEstimate(estimate_roic_and_reinvestment(tkr))

\* the ROIC path before it is rescaled
RoicFcff(nopat, ic, growth_path) ==
    RoicPath(nopat, clamp(Div(nopat, PyMax(ic, One)), Milli(80), Milli(400)), growth_path, 1)

\* "if len(fcff) > 0 and fcff0 > 0": the path rescaled by fcff0 / max(fcff[0], 1e-6)
Rescaled(fcff, fcff0) ==
    IF Len(fcff) > 0 /\ Greater(fcff0, Zero)
    THEN [i \in 1..Len(fcff) |-> Mul(fcff[i], Div(fcff0, PyMax(fcff[1], Dec(1, -6))))]
    ELSE fcff

\* build_fcff_path_via_roic from what estimate_roic_and_reinvestment returned
FcffPathFrom(fcff0, tax_rate, growth_path, est) ==
    IF NaiveEstimate(est) THEN NaivePath(fcff0, growth_path, 1)
    ELSE Rescaled(RoicFcff(Mul(safe(est.nopat_ttm, NaN), Sub(One, tax_rate)),
                           safe(est.invested_capital, NaN), growth_path),
                  fcff0)

build_fcff_path_via_roic(fcff0, tax_rate, years, growth_path, tkr) ==
    FcffPathFrom(fcff0, tax_rate, growth_path, estimate_roic_and_reinvestment(tkr))

(***************************************************************************)
(* src/dcf/router.py: the sensitivity grid and the endpoint                *)
(***************************************************************************)
\* a WACC axis laid out from the high end to the low end
WaccAxisDescending(wacc_base, step_wacc) ==
    <<clamp(Add(wacc_base, step_wacc), Milli(30), Milli(200)), wacc_base,
      clamp(Sub(wacc_base, step_wacc), Milli(30), Milli(200))>>

\* the three WACCs and the three growths a grid is laid over
WaccAxis(wacc_base, step_wacc) ==
    <<clamp(Sub(wacc_base, step_wacc), Milli(30), Milli(200)), wacc_base,
      clamp(Add(wacc_base, step_wacc), Milli(30), Milli(200))>>
TgAxis(tg_base, step_tg) ==
    <<clamp(Sub(tg_base, step_tg), Milli(10), Milli(60)), tg_base,
      clamp(Add(tg_base, step_tg), Milli(10), Milli(60))>>

\* sensitivity_grid(...): rows over the growths, cells over the WACCs
sensitivity_grid(fcff, wacc_base, tg_base, cash, debt, shares, midyear, step_wacc, step_tg) ==
    LET tgs == TgAxis(tg_base, step_tg)
        ws == WaccAxis(wacc_base, step_wacc)
    IN  [r \in 1..3 |-> [c \in 1..3 |->
            _clean_num(dcf_valuation(fcff, ws[c], tgs[r], midyear, cash, debt, shares)
                           .intrinsic_value_per_share)]]

\* the keys of base that get_dcf reads when it composes the response
BaseKeysRead ==
    {"enterprise_value", "equity_value", "intrinsic_value_per_share",
     "pv_of_explicit_fcff", "pv_of_terminal_value", "terminal_value_at_horizon",
     "discount_factors"}

NotComputed == Raised("not computed")
NoGrid == <<>>
NoComponents == [EBIT_TTM |-> None, DA_TTM |-> None, CapEx_TTM |-> None, dNWC_TTM |-> None]
\* the handler's locals; stage tells how far it got: "" before the growth
\* estimates, "capital" up to them, "bridged" once the FCFF path and the equity
\* bridge are there, "valued" once the valuations and the grid are
NoFrame ==
    [stage |-> "", wacc_axis |-> <<>>, tg_axis |-> <<>>,
     rf |-> None, tax_rate |-> None, beta |-> None, mrp |-> None, coe |-> None,
     cod_after |-> None, wacc_base |-> None, fcff0 |-> None, fcff_method |-> "",
     fcff_components |-> NoComponents,
     naive |-> FALSE, tg_used |-> None, fcff |-> <<>>, shares |-> None, debt |-> None,
     cash |-> None, base |-> NotComputed, dyn |-> NotComputed, sens_grid |-> NoGrid]

\* raise HTTPException(status_code, detail)
HTTPException(status_code, detail) ==
    [status |-> status_code, detail |-> detail, body |-> NotComputed]
Ok(body) == [status |-> 200, detail |-> "", body |-> body]
\* the handler has neither returned nor raised
NoResponse == [status |-> 0, detail |-> "", body |-> NotComputed]

\* the locals of get_dcf once the capital inputs and the starting FCFF are there
CapitalLocals(tkr, rf, tax_rate, beta, mrp, coe, cod, f0) ==
    [response |-> NoResponse,
     cod_method |-> cod.method,
     frame |-> [NoFrame EXCEPT !.stage = "capital", !.rf = rf, !.tax_rate = tax_rate,
                               !.beta = beta, !.mrp = mrp, !.coe = coe,
                               !.cod_after = cod.rate,
                               !.wacc_base = compute_wacc(tkr.info, coe, cod.rate),
                               !.fcff0 = f0.fcff0, !.fcff_method = f0.method,
                               !.fcff_components = f0.components,
                               !.naive = NaiveMode(tkr)]]

\* coe, cod_after and fcff0 of get_dcf, from rf, tax_rate, beta and mrp
CapitalCosts(tkr, rf, tax_rate, beta, mrp) ==
    CapitalLocals(tkr, rf, tax_rate, beta, mrp,
                  compute_cost_of_equity(rf, beta, mrp),
                  compute_cost_of_debt_after_tax(tkr, tax_rate, rf),
                  fcff_from_statements(tkr, tax_rate))

\* get_dcf from "Capital inputs (base)" to "FCFF starting level"
CapitalInputs(tkr) ==
    CapitalCosts(tkr, fetch_risk_free_rate(tkr.tnx_close), compute_effective_tax_rate(tkr),
                 compute_beta(tkr.info, tkr.beta_hist),
                 market_risk_premium_with_size(tkr.info, Bp(475)))

\* get_dcf from "Growths" to "Equity bridge", g what estimate_growths gave
GrowthsAndBridge(l, g, tkr, years, terminal_growth) ==
    IF ~Returned(g) THEN [l EXCEPT !.response = HTTPException(500, g.raised)]
    ELSE [l EXCEPT
            !.frame.stage = "bridged",
            !.frame.tg_used =
                TgUsed(terminal_growth,
                       compute_terminal_growth_enhanced(l.frame.rf, g.g_fcff_hist, g.g_rev_cagr,
                                                        safe(tkr.info.operatingMargins, NaN))),
            !.frame.fcff = build_fcff_path_via_roic(l.frame.fcff0, l.frame.tax_rate, years,
                                                    g.growth_path, tkr),
            !.frame.shares = safe(PyOr(tkr.info.impliedSharesOutstanding,
                                       tkr.info.sharesOutstanding), Zero),
            !.frame.debt = safe(tkr.info.totalDebt, Zero),
            !.frame.cash = compute_cash_like(tkr.info, tkr.balance_sheet)]

\* ev_dyn, eq_dyn and ivps_dyn of get_dcf, with what the response shows of the
\* dynamic valuation
DynamicOut(pv, waccs, cash, debt, shares) ==
    LET ev_dyn == Add(pv.pv_explicit, pv.pv_tv)
        eq_dyn == Sub(Add(ev_dyn, cash), debt)
    IN  [raised |-> "", wacc_path |-> waccs, discount_factors |-> pv.dfs,
         terminal_value_at_horizon |-> pv.tv, pv_of_terminal_value |-> pv.pv_tv,
         pv_of_explicit_fcff |-> pv.pv_explicit,
         enterprise_value |-> ev_dyn, equity_value |-> eq_dyn,
         intrinsic_value_per_share |-> IF Truthy(shares) THEN Div(eq_dyn, shares) ELSE None]

\* the dynamic valuation over the WACCs of build_wacc_path
DynamicOver(waccs, fcff, midyear, tg_used, cash, debt, shares) ==
    DynamicOut(pv_with_varying_wacc(fcff, waccs, midyear, tg_used), waccs, cash, debt, shares)

\* "DYNAMIC valuation (time-dependent WACC)" of get_dcf, f its locals
DynamicValuation(f, info, years, midyear) ==
    DynamicOver(build_wacc_path(f.beta, f.rf, f.mrp, f.cod_after, info, years).waccs,
                f.fcff, midyear, f.tg_used, f.cash, f.debt, f.shares)

\* get_dcf from the check of the FCFF path to the sensitivity grid
Valuations(l, tkr, years, midyear) ==
    IF l.response # NoResponse THEN l
    ELSE IF Len(l.frame.fcff) = 0 \/ l.frame.fcff[1] = Zero
    THEN [l EXCEPT !.response =
              HTTPException(400, "Unable to build FCFF projections for this ticker.")]
    ELSE [l EXCEPT
            !.frame.stage = "valued",
            !.frame.base = dcf_valuation(l.frame.fcff, l.frame.wacc_base, l.frame.tg_used,
                                         midyear, l.frame.cash, l.frame.debt, l.frame.shares),
            !.frame.dyn = DynamicValuation(l.frame, tkr.info, years, midyear),
            !.frame.sens_grid = sensitivity_grid(l.frame.fcff, l.frame.wacc_base,
                                                 l.frame.tg_used, l.frame.cash, l.frame.debt,
                                                 l.frame.shares, midyear, Milli(15), Milli(5)),
            !.frame.wacc_axis = WaccAxis(l.frame.wacc_base, Milli(15)),
            !.frame.tg_axis = TgAxis(l.frame.tg_used, Milli(5))]

\* fcff_diag of get_dcf as the locals keep it
FcffDiagOf(f) == [method |-> f.fcff_method, components |-> f.fcff_components]

\* _clean(obj) for a dict of numbers
_clean_dict(obj) == [key \in DOMAIN obj |-> _clean_num(obj[key])]

\* the dict get_dcf returns after _clean(out), f its locals
ResponseBody(f, cod_method, tkr, debug) ==
    [ticker |-> tkr.symbol,
     assumptions |-> [operating_margins |-> _clean_num(safe(tkr.info.operatingMargins, NaN)),
                      fcff_start_method |-> [FcffDiagOf(f) EXCEPT
                                                !.components = _clean_dict(@)]],
     base_constant_wacc |-> [key \in BaseKeysRead |-> f.base[key]],
     dynamic_wacc |-> [f.dyn EXCEPT !.intrinsic_value_per_share =
                                        IF IsNone(@) THEN None ELSE _clean_num(@)],
     sensitivity |-> [grid_wacc_rows_tg_cols |-> f.sens_grid,
                      wacc_axis |-> f.wacc_axis, tg_axis |-> f.tg_axis],
     fcff_projection |-> f.fcff,
     diagnostics |-> IF debug THEN cod_method ELSE ""]

\* "Compose response" of get_dcf and its except clauses: base[...] raises KeyError
\* for a key dcf_valuation did not return
Compose(l, tkr, debug) ==
    IF l.response # NoResponse THEN [response |-> l.response, frame |-> l.frame]
    ELSE IF ~(BaseKeysRead \subseteq Keys(l.frame.base))
    THEN [response |-> HTTPException(500, "KeyError"), frame |-> l.frame]
    ELSE [response |-> Ok(ResponseBody(l.frame, l.cod_method, tkr, debug)), frame |-> l.frame]

\* get_dcf(ticker, years, midyear, terminal_growth, debug) of src/dcf/router.py, tkr
\* what yf.Ticker(ticker) holds: the response and the handler's locals at its end
get_dcf(tkr, years, midyear, terminal_growth, debug) ==
    Compose(Valuations(GrowthsAndBridge(CapitalInputs(tkr), estimate_growths(tkr, years),
                                        tkr, years, terminal_growth),
                       tkr, years, midyear),
            tkr, debug)

(***************************************************************************)
(* src/backend/dcf.py.  Its compute_cash_like, compute_delta_nwc_quarterly, *)
(* fcff_from_statements, estimate_growths, estimate_roic_and_reinvestment  *)
(* and build_fcff_path_via_roic are the router's, statement for statement. *)
(***************************************************************************)
CompanyRecord(beta, rd_pretax, tax_rate, de_ratio, tg, market_cap, total_debt) ==
    [raised |-> "", beta |-> beta, risk_free_rate |-> Milli(45),
     equity_risk_premium |-> Milli(55), cost_of_debt_pretax |-> rd_pretax,
     tax_rate |-> tax_rate, debt_to_equity |-> de_ratio, terminal_growth |-> tg,
     market_cap |-> market_cap, total_debt |-> total_debt]

COMPANY_DATA ==
    [AAPL |-> CompanyRecord(Dec(125, -2), Milli(35), Milli(150), Dec(157, -2), Milli(35),
                            Dec(35, 11), Dec(11, 10)),
     TSLA |-> CompanyRecord(Dec(205, -2), Milli(65), Milli(210), Dec(15, -2), Milli(45),
                            Dec(8, 11), Dec(12, 9)),
     KO |-> CompanyRecord(Dec(65, -2), Milli(30), Milli(210), Dec(185, -2), Milli(25),
                          Dec(25, 10), Dec(4, 10)),
     MSFT |-> CompanyRecord(Dec(115, -2), Milli(32), Milli(160), Dec(45, -2), Milli(35),
                            Dec(31, 11), Dec(75, 9)),
     GOOGL |-> CompanyRecord(Dec(110, -2), Milli(28), Milli(150), Dec(8, -2), Milli(40),
                             Dec(2, 12), Dec(13, 9))]

calculate_cost_of_equity(beta, rf, erp) == Add(rf, Mul(beta, erp))

calculate_wacc_from_company_data(company_data) ==
    LET re == calculate_cost_of_equity(company_data.beta, company_data.risk_free_rate,
                                       company_data.equity_risk_premium)
        rd_after_tax == Mul(company_data.cost_of_debt_pretax, Sub(One, company_data.tax_rate))
        total_capital == Add(One, company_data.debt_to_equity)
        equity_weight == Div(One, total_capital)
        debt_weight == Div(company_data.debt_to_equity, total_capital)
    IN  clamp(Add(Mul(equity_weight, re), Mul(debt_weight, rd_after_tax)),
              Milli(50), Milli(150))

\* compute_effective_tax_rate(tkr, company_data) of the backend; fallback the
\* company_data["tax_rate"], None for a company_data without one
backend_compute_effective_tax_rate(tkr, fallback) ==
    LET fin == tkr.financials
        tax == safe(_first(_row(fin, "Income Tax Expense")), NaN)
        pre == safe(_first(_row(fin, "Income Before Tax")), NaN)
    IN  IF ~IsEmpty(fin) /\ IsFinite(tax) /\ IsFinite(pre) /\ pre.m # 0
        THEN clamp(Div(tax, pre), Zero, Milli(350))
        ELSE IF ~IsNone(fallback) THEN fallback
        ELSE Milli(210)

RECURSIVE InterestExpense(_, _)
\* the loop of fetch_company_assumptions over the interest labels: None when no row is found
InterestExpense(fin, labs) ==
    IF labs = <<>> THEN None
    ELSE LET v == _qsum(_row(fin, Head(labs)), 4)
         IN  IF InIndex(fin, Head(labs)) /\ IsFinite(v) THEN AbsF(v)
             ELSE InterestExpense(fin, Tail(labs))

InterestLabels == <<"Interest Expense", "InterestExpense", "Interest Expense Non Operating">>

\* the terminal growth fetch_company_assumptions gives a sector
SectorGrowth(sector) ==
    IF sector \in {"utilities", "consumer defensive"} THEN Milli(25)
    ELSE IF sector \in {"technology"} THEN Milli(35)
    ELSE Milli(30)

\* fetch_company_assumptions(ticker), with RF_RATE, EQUITY_RISK_PREMIUM and
\* FMP_API_KEY unset; np.isfinite(None) and float(None) raise TypeError
fetch_company_assumptions(tkr) ==
    LET info == tkr.info
        rf == Div(safe(tkr.tnx_price, Int2F(40)), Int2F(100))
        beta0 == safe(info.beta, NaN)
        beta == IF IsFinite(beta0) THEN beta0
                ELSE IF IsFinite(tkr.beta_spy) THEN clamp(tkr.beta_spy, Neg(One), Int2F(5))
                ELSE One
        fin == tkr.financials
        bs == tkr.balance_sheet
        interest_exp == InterestExpense(fin, InterestLabels)
        total_debt == safe(info.totalDebt, NaN)
        vals == _series_vals(_row(bs, "Total Debt"), 2)
        avg_debt == IF Len(vals) > 1 THEN Div(Add(vals[1], vals[2]), Int2F(2))
                    ELSE IF Len(vals) = 1 THEN vals[1]
                    ELSE total_debt
        rd_pretax == IF Greater(avg_debt, One)
                     THEN clamp(Div(interest_exp, avg_debt), Milli(10), Milli(120))
                     ELSE Milli(40)
        mktcap == safe(info.marketCap, NaN)
        de_ratio == IF Greater(mktcap, Zero)
                    THEN clamp(Div(safe(info.totalDebt, Zero), mktcap), Zero, Int2F(5))
                    ELSE Dec(3, -1)
    IN  IF IsNone(interest_exp) \/ IsNone(info.totalDebt) THEN Raised("TypeError")
        ELSE [CompanyRecord(beta, rd_pretax, backend_compute_effective_tax_rate(tkr, None),
                            de_ratio, clamp(SectorGrowth(tkr.sector), Milli(10), Milli(60)),
                            IF IsFinite(mktcap) THEN mktcap ELSE None, info.totalDebt)
              EXCEPT !.risk_free_rate = rf]

\* the entry of the table for the ticker, else what fetch_company_assumptions gives
CompanyDataIn(table, tkr) ==
    IF tkr.symbol \in DOMAIN table THEN table[tkr.symbol]
    ELSE fetch_company_assumptions(tkr)

\* get_company_data(ticker), with DCF_DYNAMIC_ONLY unset
get_company_data(tkr) == CompanyDataIn(COMPANY_DATA, tkr)

\* the growth a grid cell is valued at
tg_adj(w, tg) == IF Leq(Sub(w, tg), Milli(1)) THEN PyMin(tg, Sub(w, Milli(1))) ELSE tg

\* the per-share value of a valuation, None when dcf_valuation raised
CellValue(res) == IF Returned(res) THEN _clean_num(res.intrinsic_value_per_share) ELSE None

\* one cell of the backend's grid
GridCell(fcff, w, tg, cash, debt, shares, midyear) ==
    CellValue(dcf_valuation(fcff, w, tg_adj(w, tg), midyear, cash, debt, shares))

\* sensitivity_grid(...) of the backend
backend_sensitivity_grid(fcff, wacc_base, tg_base, cash, debt, shares, midyear, step_wacc, step_tg) ==
    LET tgs == TgAxis(tg_base, step_tg)
        ws == WaccAxis(wacc_base, step_wacc)
    IN  [r \in 1..3 |-> [c \in 1..3 |->
            GridCell(fcff, ws[c], tgs[r], cash, debt, shares, midyear)]]

\* the locals of the backend's get_dcf down to fcff0
BackendCapital(tkr, wacc_base, tg_used, eff_tax, f0) ==
    [response |-> NoResponse,
     gr |-> NotComputed,
     frame |-> [NoFrame EXCEPT !.stage = "capital", !.tax_rate = eff_tax,
                               !.wacc_base = wacc_base, !.tg_used = tg_used,
                               !.fcff0 = f0.fcff0, !.fcff_method = f0.method,
                               !.fcff_components = f0.components,
                               !.naive = NaiveMode(tkr)]]

\* the backend's get_dcf from eff_tax to fcff0
BackendBase(tkr, wacc_base, tg_used, eff_tax) ==
    BackendCapital(tkr, wacc_base, tg_used, eff_tax, fcff_from_statements(tkr, eff_tax))

\* the backend's get_dcf from company_data to fcff0; an exception of
\* get_company_data that is no ValueError comes out as 500
BackendAssumptions(tkr, company_data, terminal_growth_override, wacc_override) ==
    IF ~Returned(company_data)
    THEN [response |-> HTTPException(500, company_data.raised), gr |-> NotComputed,
          frame |-> NoFrame]
    ELSE BackendBase(tkr,
                     IF ~IsNone(wacc_override) THEN clamp(wacc_override, Milli(30), Milli(200))
                     ELSE calculate_wacc_from_company_data(company_data),
                     IF ~IsNone(terminal_growth_override)
                     THEN clamp(terminal_growth_override, Milli(10), Milli(60))
                     ELSE clamp(company_data.terminal_growth, Milli(10), Milli(60)),
                     backend_compute_effective_tax_rate(tkr, company_data.tax_rate))

\* the backend's get_dcf from the growths to shares, gr what estimate_growths gave
BackendBridge(l, gr, tkr, years) ==
    IF l.response # NoResponse THEN l
    ELSE IF ~Returned(gr) THEN [l EXCEPT !.response = HTTPException(500, gr.raised)]
    ELSE [l EXCEPT
            !.gr = gr,
            !.frame.stage = "bridged",
            !.frame.fcff = build_fcff_path_via_roic(l.frame.fcff0, l.frame.tax_rate, years,
                                                    gr.growth_path, tkr),
            !.frame.cash = compute_cash_like(tkr.info, tkr.balance_sheet),
            !.frame.debt = safe(tkr.info.totalDebt, Zero),
            !.frame.shares = PyMax(safe(PyOr(tkr.info.impliedSharesOutstanding,
                                             tkr.info.sharesOutstanding), Zero),
                                   Dec(1, -6))]

\* the backend's get_dcf from the result of dcf_valuation to the grid; ValueError
\* comes out as 404, any other exception as 500
BackendValued(l, res, midyear) ==
    IF ~Returned(res)
    THEN [l EXCEPT !.response = HTTPException(IF res.raised = "ValueError" THEN 404 ELSE 500,
                                              res.raised)]
    ELSE [l EXCEPT
            !.frame.stage = "valued",
            !.frame.base = res,
            !.frame.sens_grid = backend_sensitivity_grid(l.frame.fcff, l.frame.wacc_base,
                                                         l.frame.tg_used, l.frame.cash,
                                                         l.frame.debt, l.frame.shares, midyear,
                                                         Milli(15), Milli(5)),
            !.frame.wacc_axis = WaccAxis(l.frame.wacc_base, Milli(15)),
            !.frame.tg_axis = TgAxis(l.frame.tg_used, Milli(5))]

\* the backend's get_dcf from dcf_valuation on
BackendValuation(l, midyear) ==
    IF l.response # NoResponse THEN l
    ELSE BackendValued(l, dcf_valuation(l.frame.fcff, l.frame.wacc_base, l.frame.tg_used,
                                        midyear, l.frame.cash, l.frame.debt, l.frame.shares),
                       midyear)

\* the dict the backend's get_dcf returns, f its locals; "diagnostics", a key that
\* is there only with debug, is a set of at most one element
BackendBody(f, gr, tkr, years, midyear, debug) ==
    [ticker |-> tkr.symbol,
     inputs |-> [years |-> years, midyear |-> midyear, wacc |-> f.wacc_base,
                 terminal_growth |-> f.tg_used, effective_tax_rate |-> f.tax_rate,
                 cash |-> f.cash, debt |-> f.debt, shares_out |-> f.shares],
     growth_estimates |-> gr,
     fcff_projection |-> f.fcff,
     dcf_result |-> [key \in Keys(f.base) \ {"assumptions"} |-> _clean_num(f.base[key])],
     sensitivity_grid |-> f.sens_grid,
     diagnostics |-> IF debug THEN {[fcff |-> FcffDiagOf(f)]} ELSE {}]

BackendCompose(l, tkr, years, midyear, debug) ==
    IF l.response # NoResponse THEN [response |-> l.response, frame |-> l.frame]
    ELSE [response |-> Ok(BackendBody(l.frame, l.gr, tkr, years, midyear, debug)),
          frame |-> l.frame]

\* get_dcf(ticker, years, midyear, terminal_growth_override, wacc_override, debug)
\* of src/backend/dcf.py, with FMP_API_KEY unset: the response and the locals
backend_get_dcf(tkr, years, midyear, terminal_growth_override, wacc_override, debug) ==
    BackendCompose(
        BackendValuation(
            BackendBridge(BackendAssumptions(tkr, get_company_data(tkr),
                                             terminal_growth_override, wacc_override),
                          estimate_growths(tkr, years), tkr, years),
            midyear),
        tkr, years, midyear, debug)

(***************************************************************************)
(* Callers of the primitive: the inputs a direct call is checked on        *)
(***************************************************************************)
MaxYears == 2
MaxCf == 1

RECURSIVE SeqsUpTo(_, _)
SeqsUpTo(S, k) ==
    IF k = 0 THEN {<<>>}
    ELSE LET shorter == SeqsUpTo(S, k - 1)
         IN  shorter \cup {Append(s, x) : s \in {t \in shorter : Len(t) = k - 1}, x \in S}

CfValues == {Int2F(i) : i \in -1..MaxCf}
FcffPaths == SeqsUpTo(CfValues, MaxYears)
ExamplePath == <<Int2F(100), Int2F(110), Int2F(121)>>

Waccs == {Milli(50), Milli(65)}
Growths == {Milli(30), Bp(495), Milli(60)}
RatePairs == {[wacc |-> w, terminal_growth |-> g] : w \in Waccs, g \in Growths}
SharesChoices == {None, Zero, Int2F(-3), Int2F(4)}
CashDebtChoices == {<<Zero, Zero>>, <<Int2F(3), Int2F(1)>>}

NoArgs == [fcff |-> <<>>, wacc |-> None, terminal_growth |-> None, midyear |-> FALSE,
           cash |-> None, debt |-> None, shares_out |-> None]
NoResult == Raised("not called")
NoCall == [args |-> NoArgs, out |-> NoResult]
NoRequest == [endpoint |-> ""]

\* a caller that values one FCFF path under one or two (WACC, growth) pairs
InitCalc ==
    /\ pc = "calc"
    /\ \/ \E p \in FcffPaths, m \in BOOLEAN, cd \in CashDebtChoices, s \in SharesChoices :
             /\ args = [NoArgs EXCEPT !.fcff = p, !.midyear = m, !.cash = cd[1],
                                      !.debt = cd[2], !.shares_out = s]
             /\ todo \in {<<a>> : a \in RatePairs} \cup {<<a, b>> : a, b \in RatePairs}
       \/ /\ args = [NoArgs EXCEPT !.fcff = ExamplePath, !.cash = Zero, !.debt = Zero,
                                   !.shares_out = Int2F(100)]
          /\ todo = <<[wacc |-> Milli(100), terminal_growth |-> Milli(30)]>>
    /\ result = NoResult
    /\ prev = NoCall
    /\ request = NoRequest
    /\ response = NoResponse
    /\ frame = NoFrame
    /\ store = NoStore

\* the caller invokes dcf_valuation(fcff=..., wacc=w, terminal_growth=g, ...)
DcfValuation ==
    /\ pc = "calc"
    /\ todo # <<>>
    /\ LET a == [args EXCEPT !.wacc = Head(todo).wacc,
                             !.terminal_growth = Head(todo).terminal_growth]
       IN  /\ args' = a
           /\ result' = dcf_valuation(a.fcff, a.wacc, a.terminal_growth, a.midyear,
                                      a.cash, a.debt, a.shares_out)
    /\ prev' = [args |-> args, out |-> result]
    /\ todo' = Tail(todo)
    /\ pc' = pc
    /\ UNCHANGED <<request, response, frame, store>>

NextCalc == DcfValuation

SpecCalc == InitCalc /\ [][NextCalc]_vars

(***************************************************************************)
(* What the data provider may hold for a ticker                            *)
(***************************************************************************)
Ints2F(is) == [i \in 1..Len(is) |-> Int2F(is[i])]
Table(rows) == [l \in RowLabels |-> IF l \in DOMAIN rows THEN Ints2F(rows[l]) ELSE <<>>]

AnnualFinancials ==
    Table(("Income Tax Expense" :> <<20>>) @@ ("Income Before Tax" :> <<100>>) @@
          ("Ebit" :> <<120>>) @@ ("Interest Expense" :> <<-10>>) @@
          ("Total Revenue" :> <<1000, 900, 800>>))
AnnualBalanceSheet ==
    Table(("Cash And Short Term Investments" :> <<120>>) @@ ("Total Assets" :> <<1500>>))
AnnualCashflow ==
    Table(("Free Cash Flow" :> <<90, 80, 70>>) @@
          ("Total Cash From Operating Activities" :> <<150>>))
QuarterlyFinancials ==
    Table(("Ebit" :> <<30, 30, 30, 30>>) @@ ("Interest Expense" :> <<-3, -3, -2, -2>>))
QuarterlyBalanceSheet ==
    Table(("Total Debt" :> <<200, 200>>) @@ ("Total Assets" :> <<1500>>) @@
          ("Total Current Assets" :> <<500, 480>>) @@
          ("Total Current Liabilities" :> <<300, 290>>) @@
          ("Cash And Cash Equivalents" :> <<100, 90>>))
QuarterlyCashflow ==
    Table(("Depreciation" :> <<10, 10, 10, 10>>) @@
          ("Capital Expenditures" :> <<-15, -15, -15, -15>>))

\* the six statement tables: all there, the cash flow statements missing, none there
StatementChoices ==
    {[financials |-> AnnualFinancials, balance_sheet |-> AnnualBalanceSheet,
      cashflow |-> AnnualCashflow, quarterly_financials |-> QuarterlyFinancials,
      quarterly_balance_sheet |-> QuarterlyBalanceSheet,
      quarterly_cashflow |-> QuarterlyCashflow],
     [financials |-> AnnualFinancials, balance_sheet |-> AnnualBalanceSheet,
      cashflow |-> NoTable, quarterly_financials |-> QuarterlyFinancials,
      quarterly_balance_sheet |-> QuarterlyBalanceSheet,
      quarterly_cashflow |-> NoTable],
     [financials |-> NoTable, balance_sheet |-> NoTable,
      cashflow |-> NoTable, quarterly_financials |-> NoTable,
      quarterly_balance_sheet |-> NoTable,
      quarterly_cashflow |-> NoTable]}

\* market data: a mid-size levered company, and one with no market data but a low beta
MarketChoices ==
    {[marketCap |-> Int2F(2000), totalDebt |-> Int2F(200), totalCash |-> Int2F(100),
      beta |-> Dec(11, -1), operatingMargins |-> Milli(200),
      beta_hist |-> Dec(12, -1), tnx_close |-> Dec(45, -1),
      beta_spy |-> Dec(13, -1), tnx_price |-> Dec(44, -1), sector |-> "technology"],
     [marketCap |-> None, totalDebt |-> None, totalCash |-> None,
      beta |-> Milli(200), operatingMargins |-> None,
      beta_hist |-> NaN, tnx_close |-> Dec(15, -1),
      beta_spy |-> NaN, tnx_price |-> None, sector |-> ""]}

\* info["freeCashflow"] and info["operatingCashflow"]
InfoCashflowChoices ==
    {[freeCashflow |-> None, operatingCashflow |-> None],
     [freeCashflow |-> Int2F(85), operatingCashflow |-> Int2F(150)]}

\* info["impliedSharesOutstanding"] and info["sharesOutstanding"]
InfoSharesChoices ==
    {[impliedSharesOutstanding |-> None, sharesOutstanding |-> None],
     [impliedSharesOutstanding |-> None, sharesOutstanding |-> Zero],
     [impliedSharesOutstanding |-> None, sharesOutstanding |-> Int2F(-3)],
     [impliedSharesOutstanding |-> Zero, sharesOutstanding |-> Int2F(50)]}

Tickers(symbols) ==
    {[symbol |-> sym,
      info |-> [marketCap |-> mk.marketCap, totalDebt |-> mk.totalDebt,
                totalCash |-> mk.totalCash, beta |-> mk.beta,
                operatingMargins |-> mk.operatingMargins,
                freeCashflow |-> cfl.freeCashflow, operatingCashflow |-> cfl.operatingCashflow,
                impliedSharesOutstanding |-> sh.impliedSharesOutstanding,
                sharesOutstanding |-> sh.sharesOutstanding],
      financials |-> st.financials, balance_sheet |-> st.balance_sheet,
      cashflow |-> st.cashflow, quarterly_financials |-> st.quarterly_financials,
      quarterly_balance_sheet |-> st.quarterly_balance_sheet,
      quarterly_cashflow |-> st.quarterly_cashflow,
      beta_hist |-> mk.beta_hist, tnx_close |-> mk.tnx_close,
      beta_spy |-> mk.beta_spy, tnx_price |-> mk.tnx_price, sector |-> mk.sector] :
        sym \in symbols, st \in StatementChoices, mk \in MarketChoices,
        cfl \in InfoCashflowChoices, sh \in InfoSharesChoices}

MinHorizon == 3
MaxHorizon == 3
\* the terminal_growth query parameter: absent, or an override
GrowthOverrides == {None, Milli(30), Bp(495), Milli(60)}

(***************************************************************************)
(* GET /api/dcf/{ticker} of src/dcf/router.py                              *)
(***************************************************************************)
InitRouter ==
    /\ pc = "router"
    /\ todo = <<>> /\ args = NoArgs /\ result = NoResult /\ prev = NoCall
    /\ \E t \in Tickers({"XYZ"}), n \in MinHorizon..MaxHorizon, m \in BOOLEAN,
          tg \in GrowthOverrides, d \in BOOLEAN :
          request = [endpoint |-> "dcf/router.py", tkr |-> t, years |-> n, midyear |-> m,
                     terminal_growth |-> tg, debug |-> d]
    /\ response = NoResponse
    /\ frame = NoFrame
    /\ store = NoStore

\* the handler ends with the response and the locals of r
Finish(r) == response' = r.response /\ frame' = r.frame

\* the endpoint handles the request, from yf.Ticker(ticker) to the response or the error
GetDcf ==
    /\ pc = "router"
    /\ response = NoResponse
    /\ Finish(get_dcf(request.tkr, request.years, request.midyear,
                          request.terminal_growth, request.debug))
    /\ UNCHANGED <<pc, todo, args, result, prev, request, store>>

NextRouter == GetDcf

SpecRouter == InitRouter /\ [][NextRouter]_vars

(***************************************************************************)
(* GET /{ticker} of src/backend/dcf.py, and the two endpoints side by side *)
(***************************************************************************)
\* the terminal_growth_override and wacc_override query parameters
BackendOverrides ==
    {[terminal_growth_override |-> None, wacc_override |-> None],
     [terminal_growth_override |-> Bp(495), wacc_override |-> Milli(50)],
     [terminal_growth_override |-> Milli(60), wacc_override |-> Milli(50)],
     [terminal_growth_override |-> Milli(10), wacc_override |-> Milli(30)],
     [terminal_growth_override |-> None, wacc_override |-> Milli(200)]}

InitBackend ==
    /\ pc = "backend"
    /\ todo = <<>> /\ args = NoArgs /\ result = NoResult /\ prev = NoCall
    /\ \E t \in Tickers({"AAPL", "XYZ"}), n \in MinHorizon..MaxHorizon, m \in BOOLEAN,
          o \in BackendOverrides, d \in BOOLEAN :
          /\ request = [endpoint |-> "backend/dcf.py", tkr |-> t, years |-> n, midyear |-> m,
                        terminal_growth_override |-> o.terminal_growth_override,
                        wacc_override |-> o.wacc_override, debug |-> d]
    /\ response = NoResponse
    /\ frame = NoFrame
    /\ store = NoStore

\* the backend's endpoint handles the request
BackendGetDcf ==
    /\ pc = "backend"
    /\ response = NoResponse
    /\ Finish(backend_get_dcf(request.tkr, request.years, request.midyear,
                               request.terminal_growth_override, request.wacc_override,
                               request.debug))
    /\ UNCHANGED <<pc, todo, args, result, prev, request, store>>

NextBackend == BackendGetDcf

SpecBackend == InitBackend /\ [][NextBackend]_vars

InitService == InitRouter \/ InitBackend
NextService == GetDcf \/ BackendGetDcf

SpecService == InitService /\ [][NextService]_vars

(***************************************************************************)
(* Direct calls of the two sensitivity_grid functions                      *)
(***************************************************************************)
\* what dcf_valuation gives the cells of the router's grid: a dict or an exception
GridResults(fcff, wacc_base, tg_base, cash, debt, shares, midyear, step_wacc, step_tg) ==
    [r \in 1..3 |-> [c \in 1..3 |->
        dcf_valuation(fcff, WaccAxis(wacc_base, step_wacc)[c], TgAxis(tg_base, step_tg)[r],
                      midyear, cash, debt, shares)]]

\* the cells, counted row by row from 0, whose valuation raised
FailedCells(results) == {i \in 0..8 : ~Returned(results[(i \div 3) + 1][(i % 3) + 1])}

\* the exception of the first cell whose valuation raised
FirstRaised(results, failed) ==
    results[((CHOOSE i \in failed : \A j \in failed : i <= j) \div 3) + 1]
           [((CHOOSE i \in failed : \A j \in failed : i <= j) % 3) + 1].raised

\* a call of the router's sensitivity_grid, step_wacc and step_tg left at their
\* defaults: the loops have no try, the exception of a cell ends the call
router_grid_call(a) ==
    LET results == GridResults(a.fcff, a.wacc, a.terminal_growth, a.cash, a.debt,
                               a.shares_out, a.midyear, Milli(15), Milli(5))
    IN  IF FailedCells(results) # {} THEN Raised(FirstRaised(results, FailedCells(results)))
        ELSE [raised |-> "",
              rows |-> sensitivity_grid(a.fcff, a.wacc, a.terminal_growth, a.cash, a.debt,
                                        a.shares_out, a.midyear, Milli(15), Milli(5))]

\* a call of the backend's sensitivity_grid: each cell has its own try
backend_grid_call(a) ==
    [raised |-> "",
     rows |-> backend_sensitivity_grid(a.fcff, a.wacc, a.terminal_growth, a.cash, a.debt,
                                       a.shares_out, a.midyear, Milli(15), Milli(5))]

GridPaths == {<<>>, <<Int2F(1)>>, <<Int2F(1), Int2F(2)>>}
GridWaccs == {Neg(One), Milli(50), Milli(80)}
GridGrowths == {Milli(30), Milli(60)}

InitGrid ==
    /\ pc = "grid"
    /\ \E p \in GridPaths, w \in GridWaccs, g \in GridGrowths, m \in BOOLEAN,
          cd \in CashDebtChoices, s \in {Zero, Int2F(4)} :
          args = [fcff |-> p, wacc |-> w, terminal_growth |-> g, midyear |-> m,
                  cash |-> cd[1], debt |-> cd[2], shares_out |-> s]
    /\ request \in {[endpoint |-> "dcf/router.py"], [endpoint |-> "backend/dcf.py"]}
    /\ todo = <<>> /\ result = NoResult /\ prev = NoCall
    /\ response = NoResponse /\ frame = NoFrame
    /\ store = NoStore

\* a caller invokes sensitivity_grid of src/dcf/router.py
RouterGrid ==
    /\ pc = "grid" /\ result = NoResult /\ request.endpoint = "dcf/router.py"
    /\ result' = router_grid_call(args)
    /\ UNCHANGED <<pc, todo, args, prev, request, response, frame, store>>

\* a caller invokes sensitivity_grid of src/backend/dcf.py
BackendGrid ==
    /\ pc = "grid" /\ result = NoResult /\ request.endpoint = "backend/dcf.py"
    /\ result' = backend_grid_call(args)
    /\ UNCHANGED <<pc, todo, args, prev, request, response, frame, store>>

NextGrid == RouterGrid \/ BackendGrid

SpecGrid == InitGrid /\ [][NextGrid]_vars

(***************************************************************************)
(* Direct calls of the helper functions                                    *)
(***************************************************************************)
\* a call safe(val, default): float(val) unless val is None, float(default) when
\* float(val) raises; float(None) raises TypeError, inside the try and in the
\* except clause alike
safe_call(val, default) ==
    IF (IsNone(val) \/ IsText(val)) /\ IsNone(default) THEN Raised("TypeError")
    ELSE [raised |-> "", value |-> IF IsText(val) THEN default ELSE safe(val, default)]

SafeValues == {None, NaN, Inf, Text, Zero, Dec(32, -1), Neg(Dec(32, -1)), Int2F(5)}
\* the defaults the two files pass: 0.0 and other numbers, np.nan, None
SafeDefaults == {Zero, Int2F(5), Milli(250), NaN, None}

\* the longest row a caller passes to _qsum
MaxQuarters == 5
\* rows of quarterly values, NaN where the statement has no value; <<>> is no row
QuarterRows == SeqsUpTo({NaN, Int2F(1), Dec(25, -1)}, MaxQuarters)

\* info.get("beta")
ProviderBetas == {None, NaN, Inf, Text, Milli(100), One, Dec(11, -1), Int2F(5)}
\* what compute_beta_historical returns: NaN or a beta clamped to [0.2, 3.0]
HistoricalBetas == {NaN, Milli(200), Dec(14, -1), Int2F(3)}

\* years: int = Query(10, ge=3, le=20)
TopHorizon == 20
\* annual free cash flows and revenues, most recent first; <<>> is no row
FcfHistories == {<<>>, <<80>>, <<90, 80, 70>>, <<70, 80>>}
RevenueHistories == {<<>>, <<1000, 900, 800>>, <<900, 1000>>, <<500, 1000>>}

\* quarterly cash flows: none, depreciation and capital expenditures, depreciation only
StartQuarterlyCashflows ==
    {NoTable, QuarterlyCashflow, Table("Depreciation" :> <<10, 10, 10, 10>>)}
\* quarterly balance sheets: none, one without short-term debt, one without cash
\* and with one quarter of liabilities only, one with all the rows
StartBalanceSheets ==
    {NoTable, QuarterlyBalanceSheet,
     Table(("Total Current Assets" :> <<500, 480>>) @@
           ("Total Current Liabilities" :> <<300>>)),
     Table(("Total Current Assets" :> <<500, 480>>) @@
           ("Total Current Liabilities" :> <<300, 290>>) @@
           ("Cash And Cash Equivalents" :> <<100, 90>>) @@
           ("Short Long Term Debt" :> <<50, 40>>))}
\* annual cash flows: none, free and operating cash flow, operating cash flow only
StartCashflows ==
    {NoTable, AnnualCashflow, Table("Total Cash From Operating Activities" :> <<150>>)}
\* info["freeCashflow"] and info["operatingCashflow"], a reported zero included
StartInfos ==
    {[freeCashflow |-> None, operatingCashflow |-> None],
     [freeCashflow |-> None, operatingCashflow |-> Int2F(150)],
     [freeCashflow |-> Zero, operatingCashflow |-> Int2F(150)],
     [freeCashflow |-> Int2F(85), operatingCashflow |-> Int2F(150)]}

\* quarterly financials: none, an operating profit, an operating loss
PathFinancials == {NoTable, QuarterlyFinancials, Table("Ebit" :> <<-30, -30, -30, -30>>)}
\* fcff0: negative, zero, positive
PathStarts == {Int2F(-50), Zero, Dec(748, -1), Int2F(80)}
PathGrowths ==
    {<<Milli(60)>>, <<Milli(50), Milli(40), Milli(30)>>, <<Neg(Milli(50)), Neg(Milli(40))>>}

\* info.get("marketCap") and info.get("totalDebt")
WaccMarketCaps == {None, Zero, Int2F(-5), Int2F(2000), Dec(1, 12)}
WaccDebts == {None, Zero, Int2F(200), Int2F(5000)}
\* what compute_cost_of_equity returns lies in [0.05, 0.16]
WaccCostsOfEquity == {Milli(50), Milli(100), Milli(160)}
WaccCostsOfDebt == {Dec(237, -4), Milli(90), Milli(160)}

\* the longest WACC path a caller passes to pv_with_varying_wacc
MaxPath == 3
\* WACC paths of build_wacc_path, each WACC in [0.05, 0.15], with FCFF paths
WaccPaths == SeqsUpTo({Milli(50), Milli(80), Milli(150)}, MaxPath) \ {<<>>}
VaryingFcffs == SeqsUpTo({Int2F(1), Int2F(2)}, MaxPath) \ {<<>>}

\* constant rates above -1, and growths below the rate, within 0.001 of it, at
\* it and above it
ConstantWaccs == {Neg(Milli(500)), Milli(50), Milli(80), Milli(100)}
ConstantGrowths == {Milli(20), Bp(795), Milli(80), Milli(120)}
\* [w] * n
Repeated(w, n) == [i \in 1..n |-> w]

\* betas below, at and above 1; market caps unknown, of nothing, small and mega;
\* debts unknown, of nothing, small and large
PathBetas == {Milli(600), One, Milli(1800)}
PathMarketCaps == {None, Zero, Int2F(900), Dec(6, 11)}
PathDebts == {None, Zero, Int2F(5), Int2F(200), Dec(9, 4)}

\* quarterly balance sheets: none, with debt, with a debt of zero
DebtBalanceSheets == {NoTable, QuarterlyBalanceSheet, Table("Total Debt" :> <<0, 0>>)}
\* annual financials: none; coverage 12; an operating loss twelve times the
\* interest; coverage 2.5; no interest
DebtFinancials ==
    {NoTable, AnnualFinancials,
     Table(("Ebit" :> <<-120>>) @@ ("Interest Expense" :> <<-10>>)),
     Table(("Operating Income" :> <<25>>) @@ ("Interest Expense" :> <<10>>)),
     Table(("Ebit" :> <<120>>) @@ ("Interest Expense" :> <<0>>))}

\* a key that a mapping does not hold
Missing == [k |-> "missing", m |-> 0, x |-> 0]
\* d.setdefault(key, v)
setdefault(d, key, v) == IF d[key] = Missing THEN [d EXCEPT ![key] = v] ELSE d
\* d.get(key)
DictGet(d, key) == IF d[key] = Missing THEN None ELSE d[key]

\* out of enrich_with_fmp after the profile, the quote and the balance sheet
WithProfile(out, prof) ==
    IF prof = <<>> THEN out
    ELSE setdefault(setdefault(setdefault(out, "marketCap", DictGet(prof[1], "mktCap")),
                               "sharesOutstanding", DictGet(prof[1], "sharesOutstanding")),
                    "impliedSharesOutstanding", DictGet(prof[1], "sharesOutstanding"))
WithQuote(out, quote) ==
    IF quote = <<>> THEN out
    ELSE setdefault(setdefault(out, "currentPrice", DictGet(quote[1], "price")),
                    "regularMarketPrice", DictGet(quote[1], "price"))
FmpTotalDebt(bs0) ==
    PyOr(DictGet(bs0, "totalDebt"),
         Add(PyOr(DictGet(bs0, "shortTermDebt"), Zero), PyOr(DictGet(bs0, "longTermDebt"), Zero)))
FmpCashLike(bs0) ==
    Add(PyOr(DictGet(bs0, "cashAndCashEquivalents"), Zero),
        PyOr(DictGet(bs0, "shortTermInvestments"), Zero))
WithBalanceSheet(out, bsq) ==
    IF bsq = <<>> THEN out
    ELSE setdefault(setdefault(out, "totalDebt", FmpTotalDebt(bsq[1])),
                    "totalCash",
                    IF Truthy(FmpCashLike(bsq[1])) THEN FmpCashLike(bsq[1]) ELSE None)

\* enrich_with_fmp(info, ticker), prof, quote and bsq what _fmp_get answers: a
\* list, here empty or of one mapping
enrich_with_fmp(info, prof, quote, bsq) ==
    WithBalanceSheet(WithQuote(WithProfile(info, prof), quote), bsq)

\* the info of the primary provider: a key is missing, null or known
PrimaryInfos ==
    {[marketCap |-> mc, sharesOutstanding |-> sh, impliedSharesOutstanding |-> Missing,
      totalDebt |-> d, totalCash |-> Missing, currentPrice |-> Int2F(40),
      regularMarketPrice |-> Missing] :
        mc \in {Missing, None, Int2F(900)}, sh \in {Missing, None, Int2F(10)},
        d \in {Missing, None, Int2F(200)}}
FmpProfiles ==
    {<<>>, <<[mktCap |-> Int2F(950), sharesOutstanding |-> Int2F(11)]>>,
     <<[mktCap |-> Missing, sharesOutstanding |-> Int2F(11)]>>}
FmpQuotes == {<<>>, <<[price |-> Int2F(50)]>>}
FmpBalanceSheets ==
    {<<>>,
     <<[totalDebt |-> Int2F(210), shortTermDebt |-> Int2F(30), longTermDebt |-> Int2F(180),
        cashAndCashEquivalents |-> Int2F(60), shortTermInvestments |-> None]>>,
     <<[totalDebt |-> None, shortTermDebt |-> Int2F(30), longTermDebt |-> Int2F(50),
        cashAndCashEquivalents |-> Missing, shortTermInvestments |-> Missing]>>}

\* what fetch_risk_free_rate returns lies in [2%, 7%]
GrowthRiskFrees == {Milli(20), Milli(40), Milli(50), Milli(70)}
\* g_fcff_hist and g_rev_cagr of estimate_growths
GrowthHistories == {Zero, Milli(60), Milli(250)}
GrowthCagrs == {None, Neg(Milli(200)), Milli(70), Milli(250)}
\* safe(info.get("operatingMargins"), np.nan)
GrowthMargins == {NaN, Milli(50), Milli(150), Milli(300)}
\* the terminal_growth of the request
TgOverrides == {None, Milli(5), Milli(30), Milli(80)}

InitHelpers ==
    /\ \/ /\ pc = "safe"
          /\ args \in [val : SafeValues, default : SafeDefaults]
       \/ /\ pc = "_qsum"
          /\ args \in [row : QuarterRows, n : {4}]
       \/ /\ pc = "compute_beta"
          /\ args \in [info : [beta : ProviderBetas], b_hist : HistoricalBetas]
       \/ /\ pc = "fcff_from_statements"
          /\ \E fin_q \in {NoTable, QuarterlyFinancials}, cf_q \in StartQuarterlyCashflows,
                bs_q \in StartBalanceSheets, cf \in StartCashflows, info \in StartInfos :
                args = [tkr |-> [quarterly_financials |-> fin_q, quarterly_cashflow |-> cf_q,
                                 quarterly_balance_sheet |-> bs_q, cashflow |-> cf,
                                 info |-> info],
                        eff_tax |-> Milli(210)]
       \/ /\ pc = "build_fcff_path_via_roic"
          /\ \E fin_q \in PathFinancials, f0 \in PathStarts, gp \in PathGrowths :
                args = [tkr |-> [quarterly_financials |-> fin_q,
                                 quarterly_balance_sheet |-> QuarterlyBalanceSheet,
                                 info |-> [totalCash |-> Int2F(100)]],
                        fcff0 |-> f0, tax_rate |-> Milli(210), growth_path |-> gp]
       \/ /\ pc = "compute_wacc"
          /\ args \in [info : [marketCap : WaccMarketCaps, totalDebt : WaccDebts],
                       coe : WaccCostsOfEquity, cod_after_tax : WaccCostsOfDebt]
       \/ /\ pc = "pv_with_varying_wacc"
          /\ \E ws \in WaccPaths, m \in BOOLEAN, g \in {Milli(30), Milli(60)} :
                \E p \in {q \in VaryingFcffs : Len(q) = Len(ws)} :
                    args = [fcff |-> p, waccs |-> ws, midyear |-> m, terminal_growth |-> g]
       \/ /\ pc = "compute_cost_of_debt_after_tax"
          /\ \E fin_q \in {NoTable, QuarterlyFinancials}, bs_q \in DebtBalanceSheets,
                fin \in DebtFinancials, rf \in {Dec(15, -3), Dec(45, -3)}, r \in BOOLEAN :
                args = [tkr |-> [quarterly_financials |-> fin_q,
                                 quarterly_balance_sheet |-> bs_q, financials |-> fin],
                        tax_rate |-> Milli(210), rf |-> rf, raises |-> r]
       \/ /\ pc = "tg_used"
          /\ args \in [rf : GrowthRiskFrees, g_fcff_hist : GrowthHistories,
                       g_rev_cagr : GrowthCagrs, margins : GrowthMargins,
                       terminal_growth : TgOverrides]
       \/ /\ pc = "enrich_with_fmp"
          /\ \E i \in PrimaryInfos, p \in FmpProfiles, q \in FmpQuotes, b \in FmpBalanceSheets :
                args = [info |-> i, prof |-> p, quote |-> q, bsq |-> b]
       \/ /\ pc = "constant_rate"
          /\ args \in [fcff : VaryingFcffs, wacc : ConstantWaccs, terminal_growth : ConstantGrowths]
       \/ /\ pc = "build_wacc_path"
          /\ args \in [base_beta : PathBetas, rf : {Milli(40)}, mrp : {Bp(475)},
                       cod_after_tax : {Milli(30), Milli(90)},
                       info : [marketCap : PathMarketCaps, totalDebt : PathDebts],
                       years : {1, MaxPath}]
       \/ /\ pc = "estimate_growths"
          /\ \E fcf \in FcfHistories, rev \in RevenueHistories, h \in MinHorizon..TopHorizon :
                args = [tkr |-> [cashflow |-> Table("Free Cash Flow" :> fcf),
                                 financials |-> Table("Total Revenue" :> rev)],
                        horizon |-> h]
    /\ request = NoRequest
    /\ todo = <<>> /\ result = NoResult /\ prev = NoCall
    /\ response = NoResponse /\ frame = NoFrame
    /\ store = NoStore

\* a caller invokes safe
Safe ==
    /\ pc = "safe" /\ result = NoResult
    /\ result' = safe_call(args.val, args.default)
    /\ UNCHANGED <<pc, todo, args, prev, request, response, frame, store>>

\* a caller invokes _qsum
Qsum ==
    /\ pc = "_qsum" /\ result = NoResult
    /\ result' = [raised |-> "", value |-> _qsum(args.row, args.n)]
    /\ UNCHANGED <<pc, todo, args, prev, request, response, frame, store>>

\* a caller invokes compute_beta
ComputeBeta ==
    /\ pc = "compute_beta" /\ result = NoResult
    /\ result' = compute_beta_call(args.info, args.b_hist)
    /\ UNCHANGED <<pc, todo, args, prev, request, response, frame, store>>

\* a caller invokes estimate_growths
EstimateGrowths ==
    /\ pc = "estimate_growths" /\ result = NoResult
    /\ result' = estimate_growths(args.tkr, args.horizon)
    /\ UNCHANGED <<pc, todo, args, prev, request, response, frame, store>>

\* a caller invokes fcff_from_statements
FcffFromStatements ==
    /\ pc = "fcff_from_statements" /\ result = NoResult
    /\ result' = [raised |-> "", value |-> fcff_from_statements(args.tkr, args.eff_tax)]
    /\ UNCHANGED <<pc, todo, args, prev, request, response, frame, store>>

\* a caller invokes build_fcff_path_via_roic
BuildFcffPath ==
    /\ pc = "build_fcff_path_via_roic" /\ result = NoResult
    /\ result' = [raised |-> "",
                  value |-> build_fcff_path_via_roic(args.fcff0, args.tax_rate,
                                                     Len(args.growth_path), args.growth_path,
                                                     args.tkr)]
    /\ UNCHANGED <<pc, todo, args, prev, request, response, frame, store>>

\* a caller invokes compute_wacc
ComputeWacc ==
    /\ pc = "compute_wacc" /\ result = NoResult
    /\ result' = [raised |-> "",
                  value |-> compute_wacc(args.info, args.coe, args.cod_after_tax)]
    /\ UNCHANGED <<pc, todo, args, prev, request, response, frame, store>>

\* a caller invokes pv_with_varying_wacc
PvWithVaryingWacc ==
    /\ pc = "pv_with_varying_wacc" /\ result = NoResult
    /\ result' = [raised |-> "",
                  value |-> pv_with_varying_wacc(args.fcff, args.waccs, args.midyear,
                                                 args.terminal_growth)]
    /\ UNCHANGED <<pc, todo, args, prev, request, response, frame, store>>

\* a caller invokes compute_cost_of_debt_after_tax
CostOfDebt ==
    /\ pc = "compute_cost_of_debt_after_tax" /\ result = NoResult
    /\ result' = [raised |-> "",
                  value |-> cost_of_debt_call(args.tkr, args.tax_rate, args.rf, args.raises)]
    /\ UNCHANGED <<pc, todo, args, prev, request, response, frame, store>>

\* get_dcf settles the terminal growth it uses
TerminalGrowth ==
    /\ pc = "tg_used" /\ result = NoResult
    /\ result' = [raised |-> "",
                  value |-> TgUsed(args.terminal_growth,
                                   compute_terminal_growth_enhanced(args.rf, args.g_fcff_hist,
                                                                    args.g_rev_cagr,
                                                                    args.margins))]
    /\ UNCHANGED <<pc, todo, args, prev, request, response, frame, store>>

\* a caller invokes enrich_with_fmp; out is a copy, info stays as it was
EnrichWithFmp ==
    /\ pc = "enrich_with_fmp" /\ result = NoResult
    /\ result' = [raised |-> "",
                  value |-> enrich_with_fmp(args.info, args.prof, args.quote, args.bsq)]
    /\ UNCHANGED <<pc, todo, args, prev, request, response, frame, store>>

\* a caller values one path at one constant rate in both modes, without mid-year
ConstantRate ==
    /\ pc = "constant_rate" /\ result = NoResult
    /\ result' = [raised |-> "",
                  dynamic |-> pv_with_varying_wacc(args.fcff, Repeated(args.wacc, Len(args.fcff)),
                                                   FALSE, args.terminal_growth),
                  static |-> dcf_valuation(args.fcff, args.wacc, args.terminal_growth, FALSE,
                                           Zero, Zero, One)]
    /\ UNCHANGED <<pc, todo, args, prev, request, response, frame, store>>

\* a caller invokes build_wacc_path
BuildWaccPath ==
    /\ pc = "build_wacc_path" /\ result = NoResult
    /\ result' = build_wacc_path(args.base_beta, args.rf, args.mrp, args.cod_after_tax,
                                 args.info, args.years)
    /\ UNCHANGED <<pc, todo, args, prev, request, response, frame, store>>

NextHelpers ==
    \/ Safe \/ Qsum \/ ComputeBeta \/ EstimateGrowths \/ FcffFromStatements \/ BuildFcffPath
    \/ ComputeWacc \/ PvWithVaryingWacc \/ CostOfDebt \/ TerminalGrowth \/ EnrichWithFmp
    \/ ConstantRate \/ BuildWaccPath

SpecHelpers == InitHelpers /\ [][NextHelpers]_vars

(***************************************************************************)
(* The watchlist of src/backend/model.py and src/backend/query.py.  st is  *)
(* the data store: the rows of the tables ticker and userticker, in the    *)
(* order of their insertion.  The schema is not part of the repository:    *)
(* st.constrained tells whether userticker refuses a second row of the     *)
(* same uid and ticker.  A Python str is the record Str(s), a dict the     *)
(* record of its keys, so that a str never equals a dict.                  *)
(***************************************************************************)
Str(s) == [str |-> s]
\* x in lst
PyIn(x, lst) == \E i \in DOMAIN lst : lst[i] = x

\* the rows of userticker of the user uid
UserRows(st, uid) == SelectSeq(st.userticker, LAMBDA r : r.uid = uid)
\* the ticker row that a row of userticker refers to
TickerRow(st, ticker) == CHOOSE r \in {st.ticker[i] : i \in DOMAIN st.ticker} : r.ticker = ticker

\* fetch_userlist(uid): a list of dicts, one per row of the user
fetch_userlist(st, uid) ==
    [i \in DOMAIN UserRows(st, uid) |->
        [ticker |-> TickerRow(st, UserRows(st, uid)[i].ticker).ticker,
         company_name |-> TickerRow(st, UserRows(st, uid)[i].ticker).company_name]]

check_ticker_exists(st, ticker) == \E i \in DOMAIN st.ticker : st.ticker[i].ticker = ticker

\* add_ticker(ticker, company_name): the store after it
add_ticker(st, ticker, company_name) ==
    IF ~check_ticker_exists(st, ticker)
    THEN [st EXCEPT !.ticker = Append(@, [ticker |-> ticker, company_name |-> company_name])]
    ELSE st

\* add_user_ticker(uid, ticker): the store after it and what the insert raised
add_user_ticker(st, uid, ticker) ==
    IF st.constrained /\ PyIn([uid |-> uid, ticker |-> ticker], st.userticker)
    THEN [store |-> st, raised |-> "APIError", message |-> ""]
    ELSE [store |-> [st EXCEPT !.userticker = Append(@, [uid |-> uid, ticker |-> ticker])],
          raised |-> "", message |-> "Ticker added to user list"]

\* the branch "if ticker not in userlist" of insert_user_ticker; found is the
\* answer of the company search, a list empty or of one company
AddToList(st, uid, ticker, found) ==
    IF check_ticker_exists(st, ticker) THEN add_user_ticker(st, uid, ticker)
    ELSE IF found = <<>> THEN [store |-> st, raised |-> "IndexError", message |-> ""]
    ELSE add_user_ticker(add_ticker(st, ticker, found[1].name), uid, ticker)

\* insert_user_ticker(uid, ticker): the store after it, what it raised and the
\* message it returned; ticker is a str and userlist a list of dicts
insert_user_ticker(st, uid, ticker, found) ==
    IF ~PyIn(Str(ticker), fetch_userlist(st, uid)) THEN AddToList(st, uid, ticker, found)
    ELSE [store |-> st, raised |-> "", message |-> "Ticker already in user list"]

MaxRows == 4
Uids == {"u1", "u2"}
ListedTickers == {"AAPL", "MSFT"}
CompanySearches == {<<>>, <<[name |-> "Company"]>>}

InitWatchlist ==
    /\ pc = "watchlist"
    /\ store \in [ticker : {<<>>}, userticker : {<<>>}, constrained : BOOLEAN]
    /\ args = NoArgs /\ request = NoRequest
    /\ todo = <<>> /\ result = NoResult /\ prev = NoCall
    /\ response = NoResponse /\ frame = NoFrame

\* a caller invokes insert_user_ticker(uid, ticker)
InsertUserTicker(uid, ticker, found) ==
    /\ pc = "watchlist" /\ Len(store.userticker) < MaxRows
    /\ args' = [uid |-> uid, ticker |-> ticker]
    /\ prev' = [userlist |-> fetch_userlist(store, uid), rows |-> store.userticker]
    /\ store' = insert_user_ticker(store, uid, ticker, found).store
    /\ result' = [raised |-> insert_user_ticker(store, uid, ticker, found).raised,
                  message |-> insert_user_ticker(store, uid, ticker, found).message]
    /\ UNCHANGED <<pc, todo, request, response, frame>>

NextWatchlist ==
    \E uid \in Uids, ticker \in ListedTickers, found \in CompanySearches :
        InsertUserTicker(uid, ticker, found)

SpecWatchlist == InitWatchlist /\ [][NextWatchlist]_vars

(***************************************************************************)
(* Properties of dcf_valuation, checked under SpecCalc                     *)
(***************************************************************************)
Called == Returned(result)
LastFcff == args.fcff[Len(args.fcff)]
SharesPositive(s) == IsNum(s) /\ Less(Zero, s)

\* v * 10^d rounded half away from zero to an integer (v shown with d decimals)
Shown(v, d) ==
    LET j == v.x + d
    IN  IF j >= 0 THEN v.m * 10^j
        ELSE IF j < -9 THEN 0
        ELSE ShiftRound(v.m, -j)

\* C2: every returned valuation satisfies enterprise value = PV of explicit
\* FCFF + PV of terminal value, equity value = enterprise value + cash - debt,
\* and, when the share count is positive, per-share value = equity / shares.
C2_ValuationIdentities ==
    Called =>
        /\ result.enterprise_value = Add(result.pv_explicit, result.pv_terminal)
        /\ result.equity_value =
               Sub(Add(result.enterprise_value, OrZero(args.cash)), OrZero(args.debt))
        /\ SharesPositive(args.shares_out) =>
               result.intrinsic_value_per_share = Div(result.equity_value, args.shares_out)

\* a valuation with cash and debt that differ, over positive shares, was returned
C2_Witness ==
    /\ Called
    /\ SharesPositive(args.shares_out)
    /\ args.cash = Int2F(3) /\ args.debt = Int2F(1)
    /\ Less(Zero, result.pv_terminal)
    /\ Less(result.enterprise_value, result.equity_value)

\* C3 as stated: whenever WACC - g <= 0.001 the growth used for the terminal
\* value is WACC - 0.001, so the denominator WACC - g is never below 0.001.
C3_GuardAsStated ==
    (Called /\ Leq(Sub(args.wacc, args.terminal_growth), Milli(1))) =>
        /\ GrowthUsed(args.wacc, args.terminal_growth) = Sub(args.wacc, Milli(1))
        /\ Leq(Milli(1), Sub(args.wacc, GrowthUsed(args.wacc, args.terminal_growth)))

\* C4 as stated: with a share count that is null, zero or negative the
\* per-share value of the returned valuation is null.
C4_NoSharesNoPerShare ==
    (Called /\ ~SharesPositive(args.shares_out)) =>
        IsNone(result.intrinsic_value_per_share)

\* both calls of the sweep returned a valuation of the same path
BothCalled == Called /\ Returned(prev.out) /\ prev.args.fcff = args.fcff
WaccRaised ==
    /\ BothCalled
    /\ prev.args.terminal_growth = args.terminal_growth
    /\ Less(prev.args.wacc, args.wacc)
    /\ Less(args.terminal_growth, prev.args.wacc)
GrowthRaised ==
    /\ BothCalled
    /\ prev.args.wacc = args.wacc
    /\ Less(prev.args.terminal_growth, args.terminal_growth)
    /\ Less(args.terminal_growth, args.wacc)
PathNonNegativeEndingPositive ==
    /\ Len(args.fcff) > 0
    /\ \A i \in 1..Len(args.fcff) : Leq(Zero, args.fcff[i])
    /\ Less(Zero, LastFcff)

\* C7 as stated: for every FCFF path, of positive, zero or negative values,
\* raising WACC (both above g) lowers the enterprise value strictly and
\* raising g (both below WACC) raises it strictly.
C7_MonotoneAnyPath ==
    /\ WaccRaised => Less(result.enterprise_value, prev.out.enterprise_value)
    /\ GrowthRaised => Less(prev.out.enterprise_value, result.enterprise_value)

\* C7 amended: the same two strict orderings for the FCFF paths whose values
\* are all non-negative and whose final value is positive.
C7_MonotonePositivePath ==
    PathNonNegativeEndingPositive => C7_MonotoneAnyPath

C7_Witness ==
    /\ PathNonNegativeEndingPositive
    /\ Len(args.fcff) = 2
    /\ GrowthRaised
    /\ args.terminal_growth = Bp(495)
    /\ Less(prev.out.enterprise_value, result.enterprise_value)

\* the call of the worked example: FCFF [100, 110, 121], WACC 10%, growth 3%,
\* end-of-year discounting, no cash, no debt, 100 shares
ExampleCalled ==
    /\ Called
    /\ args.fcff = ExamplePath
    /\ args.wacc = Milli(100) /\ args.terminal_growth = Milli(30)
    /\ ~args.midyear
    /\ args.cash = Zero /\ args.debt = Zero /\ args.shares_out = Int2F(100)
ExamplePvOfYear(i) == Mul(args.fcff[i], _discount_factor(args.wacc, 2 * i))

\* C8 as stated: the worked example gives a present value of 90.909 for each
\* year, terminal value 1781.857, PV of terminal value 1338.99, enterprise
\* value 1611.72 and per-share value 16.12.
C8_ExampleAsStated ==
    ExampleCalled =>
        /\ \A i \in 1..3 : Shown(ExamplePvOfYear(i), 3) = 90909
        /\ Shown(result.terminal_value, 3) = 1781857
        /\ Shown(result.pv_terminal, 2) = 133899
        /\ Shown(result.enterprise_value, 2) = 161172
        /\ Shown(result.intrinsic_value_per_share, 2) = 1612

\* C8 amended: the worked example gives a present value of 90.909 for each
\* year, terminal value 1780.429, PV of terminal value 1337.66, enterprise
\* value 1610.39 and per-share value 16.10.
C8_ExampleAsComputed ==
    ExampleCalled =>
        /\ \A i \in 1..3 : Shown(ExamplePvOfYear(i), 3) = 90909
        /\ Shown(result.terminal_value, 3) = 1780429
        /\ Shown(result.pv_terminal, 2) = 133766
        /\ Shown(result.enterprise_value, 2) = 161039
        /\ Shown(result.intrinsic_value_per_share, 2) = 1610

C8_Witness == ExampleCalled /\ Shown(result.pv_explicit, 3) = 272727

(***************************************************************************)
(* Properties of the endpoints, checked under SpecRouter and SpecService   *)
(***************************************************************************)
Handled == response # NoResponse
OnRouter == request.endpoint = "dcf/router.py"
OnBackend == request.endpoint = "backend/dcf.py"
PathBuilt == frame.stage \in {"bridged", "valued"}
PathUsable == PathBuilt /\ Len(frame.fcff) > 0 /\ frame.fcff[1] # Zero
PathUnusable == PathBuilt /\ (Len(frame.fcff) = 0 \/ frame.fcff[1] = Zero)
NothingValued ==
    frame.base = NotComputed /\ frame.dyn = NotComputed /\ frame.sens_grid = NoGrid
InsufficientDataError == response.status \in 400..499

\* C1 as stated: the result of dcf_valuation carries every key get_dcf of
\* dcf/router.py reads from it, so a request whose FCFF path is non-empty with a
\* non-zero first value ends in a valuation response, never an internal error.
C1_ValuationResponse ==
    (Handled /\ OnRouter /\ PathUsable) =>
        /\ BaseKeysRead \subseteq Keys(frame.base)
        /\ response.status = 200

\* C5 as stated: in both endpoints an FCFF path that is empty or starts with
\* exactly zero ends in a 4xx response, and no valuation, dynamic valuation or
\* sensitivity grid is computed.
C5_UnusablePathRejected ==
    (Handled /\ PathUnusable) => (InsufficientDataError /\ NothingValued)

FellThroughToZero ==
    /\ frame.stage # ""
    /\ frame.fcff_method = "Fallback info.freeCashflow/operatingCashflow"
    /\ frame.fcff0 = Zero

\* C6 as stated: when fcff_from_statements falls through to its final default
\* 0, the router's get_dcf ends in a 4xx response without valuing anything, in
\* the naive and in the ROIC-based mode of build_fcff_path_via_roic alike.
C6_NoBaseRejected ==
    (Handled /\ OnRouter /\ FellThroughToZero) => (InsufficientDataError /\ NothingValued)

Ascending(axis) == Leq(axis[1], axis[2]) /\ Leq(axis[2], axis[3])
IsThreeByThree(grid) == Len(grid) = 3 /\ \A r \in 1..3 : Len(grid[r]) = 3

\* C9: every sensitivity grid an endpoint computes has 3 rows of 3 cells and
\* lies over [clamp(w - 1.5%, 3%, 20%), w, clamp(w + 1.5%, 3%, 20%)] and
\* [clamp(g - 0.5%, 1%, 6%), g, clamp(g + 0.5%, 1%, 6%)], both ascending, for
\* every base (w, g) the endpoint passes.
C9_GridShapeAndAxes ==
    (Handled /\ frame.stage = "valued") =>
        LET w == frame.wacc_base
            g == frame.tg_used
        IN  /\ IsThreeByThree(frame.sens_grid)
            /\ frame.wacc_axis = <<PyMax(Milli(30), PyMin(Milli(200), Sub(w, Milli(15)))), w,
                                   PyMax(Milli(30), PyMin(Milli(200), Add(w, Milli(15))))>>
            /\ frame.tg_axis = <<PyMax(Milli(10), PyMin(Milli(60), Sub(g, Milli(5)))), g,
                                 PyMax(Milli(10), PyMin(Milli(60), Add(g, Milli(5))))>>
            /\ Ascending(frame.wacc_axis)
            /\ Ascending(frame.tg_axis)

\* a grid whose lower WACC and lower growth are both clamped onto the base
C9_Witness ==
    /\ Handled /\ OnBackend /\ frame.stage = "valued"
    /\ frame.wacc_base = Milli(30) /\ frame.tg_used = Milli(10)
    /\ frame.wacc_axis[1] = frame.wacc_axis[2]
    /\ frame.tg_axis[1] = frame.tg_axis[2]
    /\ Less(frame.wacc_axis[2], frame.wacc_axis[3])

\* C10 as stated: in both endpoints the centre cell of the grid equals the
\* per-share value of the base valuation of the same request, whatever the base
\* WACC and terminal growth.
C10_CentreIsBase ==
    (Handled /\ frame.stage = "valued") =>
        frame.sens_grid[2][2] = _clean_num(frame.base.intrinsic_value_per_share)

\* the values of a dict or a list
Values(obj) == {obj[key] : key \in DOMAIN obj}

\* the numbers in the body of a response of dcf/router.py
RouterNumbers(body) ==
    UNION {{body.assumptions.operating_margins},
           Values(body.assumptions.fcff_start_method.components),
           Values(body.fcff_projection),
           UNION {Values(row) : row \in Values(body.sensitivity.grid_wacc_rows_tg_cols)}}

\* the numbers in the body of a response of backend/dcf.py
BackendNumbers(body) ==
    UNION {{body.inputs.wacc, body.inputs.terminal_growth, body.inputs.effective_tax_rate,
            body.inputs.cash, body.inputs.debt, body.inputs.shares_out},
           Values(body.fcff_projection),
           Values(body.dcf_result),
           UNION {Values(row) : row \in Values(body.sensitivity_grid)},
           UNION {Values(d.fcff.components) : d \in body.diagnostics}}

Valuated == Handled /\ response.status = 200

\* C12 as stated: no response of either endpoint that carries a valuation holds
\* a NaN or an infinity; every non-finite number has been replaced by null.
C12_NoNonFiniteNumber ==
    Valuated =>
        \A v \in (IF OnRouter THEN RouterNumbers(response.body)
                  ELSE BackendNumbers(response.body)) : IsNone(v) \/ IsFinite(v)

\* the provider has no interest-expense row for the ticker, or no totalDebt
LacksInterestOrDebt ==
    \/ IsNone(InterestExpense(request.tkr.financials, InterestLabels))
    \/ IsNone(request.tkr.info.totalDebt)

\* C17 as stated: a request to backend/dcf.py for a ticker without an
\* interest-expense row or with a null totalDebt completes through the
\* fallbacks: no exception, hence no 5xx response, comes of the absence.
C17_MissingDataNotFatal ==
    (Handled /\ OnBackend /\ LacksInterestOrDebt) => response.status \notin 500..599

(***************************************************************************)
(* Properties of sensitivity_grid, checked under SpecGrid                  *)
(***************************************************************************)
GridCalled == pc = "grid" /\ result # NoResult

\* the valuation the called sensitivity_grid asks for in row r, column c
CellValuation(r, c) ==
    LET w == WaccAxis(args.wacc, Milli(15))[c]
        tg == TgAxis(args.terminal_growth, Milli(5))[r]
    IN  dcf_valuation(args.fcff, w, IF OnBackend THEN tg_adj(w, tg) ELSE tg, args.midyear,
                      args.cash, args.debt, args.shares_out)

SafeCalled == pc = "safe" /\ result # NoResult

\* C13 as stated: safe never raises and always returns a finite number: the
\* value when it is a finite number, the default when the value is null,
\* non-numeric, NaN or infinite, for every default the code passes, null included.
C13_SafeIsFiniteOrDefault ==
    SafeCalled =>
        /\ Returned(result)
        /\ IsFinite(result.value)
        /\ result.value = IF IsFinite(args.val) THEN args.val ELSE args.default

QsumCalled == pc = "_qsum" /\ result # NoResult

\* C14 as stated: _qsum returns the sum of the first n non-missing values of
\* the row, of those there are when they are fewer than n, and NaN, never 0,
\* when the row has no value or there is no row.
C14_QsumOfNothingIsUnknown ==
    QsumCalled =>
        result.value = IF DropNa(args.row) = <<>> THEN NaN
                       ELSE SumF(FirstN(DropNa(args.row), args.n))

BetaCalled == pc = "compute_beta" /\ result # NoResult
\* the provider's beta is there and is a finite number
ProviderAvailable == IsFinite(args.info.beta)
HistoricalAvailable == IsFinite(args.b_hist)
\* the beta and the source the four branches are to give
ExpectedBeta ==
    IF HistoricalAvailable /\ ProviderAvailable
    THEN [beta |-> clamp(Add(Mul(Milli(700), clamp(args.b_hist, Milli(200), Int2F(3))),
                             Mul(Milli(300), clamp(args.info.beta, Milli(200), Int2F(3)))),
                         Milli(200), Int2F(3)),
          source |-> "blend(70% hist, 30% info)"]
    ELSE IF HistoricalAvailable
    THEN [beta |-> clamp(args.b_hist, Milli(200), Int2F(3)), source |-> "historical"]
    ELSE IF ProviderAvailable
    THEN [beta |-> clamp(args.info.beta, Milli(200), Int2F(3)), source |-> "info"]
    ELSE [beta |-> One, source |-> "fallback"]

\* C15 as stated: compute_beta blends 70% historical with 30% provider beta
\* when both are available, takes the available one otherwise and 1.0 when
\* neither is; the result lies in [0.2, 3.0], the source names the branch, and a
\* provider beta that is no finite number counts as unavailable.
C15_BetaBranches ==
    BetaCalled =>
        /\ Returned(result)
        /\ Leq(Milli(200), result.beta) /\ Leq(result.beta, Int2F(3))
        /\ result.beta = ExpectedBeta.beta
        /\ result.source = ExpectedBeta.source

GrowthsCalled == pc = "estimate_growths" /\ Returned(result)

\* C16 as stated: for every horizon in 3..20 and every g_used estimate_growths
\* produces, negative ones included, the growth path is non-increasing.
C16_PathNonIncreasing ==
    GrowthsCalled =>
        \A i \in 1..(args.horizon - 1) :
            Geq(result.growth_path[i], result.growth_path[i + 1])

\* C16 amended: for every horizon in 3..20 the growth path is non-increasing
\* when g_used is not negative and non-decreasing, rising toward zero, when
\* g_used is negative; it never changes sign and ends at 0.8 * g_used.
C16_PathDecaysTowardZero ==
    GrowthsCalled =>
        /\ Len(result.growth_path) = args.horizon
        /\ result.growth_path[args.horizon] = Mul(result.g_used, Milli(800))
        /\ \A i \in 1..(args.horizon - 1) :
              IF Geq(result.g_used, Zero)
              THEN Geq(result.growth_path[i], result.growth_path[i + 1])
              ELSE /\ Less(result.growth_path[i], result.growth_path[i + 1])
                   /\ Less(result.growth_path[i + 1], Zero)

\* a path of twenty years from a negative g_used
C16_Witness ==
    /\ GrowthsCalled /\ args.horizon = TopHorizon
    /\ Less(result.g_used, Zero)
    /\ Less(result.growth_path[1], result.growth_path[TopHorizon])

FcffCalled == pc = "fcff_from_statements" /\ result # NoResult
TtmMethod == "EBIT(1-T)+DA-CapEx-dNWC (TTM, quarterly)"
\* the annual free cash flows and the operating cash flow the fallbacks read
AnnualFcf == _series_vals(_row(args.tkr.cashflow, "Free Cash Flow"), 1)
AnnualOcf == _first(_row(args.tkr.cashflow, "Total Cash From Operating Activities"))

\* the value and the method of the first applicable of the four methods, c the
\* components of the diagnostic and provided the value of the fourth method
FirstApplicable(c, provided) ==
    IF \A name \in DOMAIN c : IsFinite(c[name])
    THEN [fcff0 |-> Sub(Sub(Add(Mul(c.EBIT_TTM, Sub(One, args.eff_tax)), c.DA_TTM),
                            c.CapEx_TTM), c.dNWC_TTM),
          method |-> TtmMethod]
    ELSE IF AnnualFcf # <<>>
    THEN [fcff0 |-> AnnualFcf[1], method |-> "Fallback annual Free Cash Flow"]
    ELSE IF IsFinite(AnnualOcf) /\ IsFinite(c.CapEx_TTM)
    THEN [fcff0 |-> Sub(AnnualOcf, c.CapEx_TTM), method |-> "Fallback OCF - CapEx"]
    ELSE [fcff0 |-> provided, method |-> "Fallback info.freeCashflow/operatingCashflow"]

\* the diagnostic holds the four components and the method and value given
DiagIs(expected) ==
    /\ DOMAIN result.value.components = {"EBIT_TTM", "DA_TTM", "CapEx_TTM", "dNWC_TTM"}
    /\ result.value.method = expected.method
    /\ result.value.fcff0 = expected.fcff0

\* C18 as stated: fcff_from_statements returns the value of the first
\* applicable method, the fourth being the provider's freeCashflow, else its
\* operatingCashflow, else 0, and the diagnostic names that method and holds the
\* four TTM components.
C18_FirstApplicableMethod ==
    FcffCalled =>
        DiagIs(FirstApplicable(result.value.components,
                               IF ~IsNone(args.tkr.info.freeCashflow)
                               THEN args.tkr.info.freeCashflow
                               ELSE IF ~IsNone(args.tkr.info.operatingCashflow)
                               THEN args.tkr.info.operatingCashflow
                               ELSE Zero))

\* the quarterly values of a balance-sheet row and of its alternative
NwcRow(name, other) ==
    ListOr(_series_vals(_row(args.tkr.quarterly_balance_sheet, name), 2),
           _series_vals(_row(args.tkr.quarterly_balance_sheet, other), 2))
\* current assets, current liabilities, cash and short-term debt each have this
\* quarter's and the prior quarter's value
DeltaNwcKnown ==
    /\ Len(NwcRow("Total Current Assets", "Total Current Assets")) = 2
    /\ Len(NwcRow("Total Current Liabilities", "Total Current Liabilities")) = 2
    /\ Len(NwcRow("Cash And Cash Equivalents", "Cash")) = 2
    /\ Len(NwcRow("Short Long Term Debt", "Short/Current Long Term Debt")) = 2

\* C19 as stated: when the quarterly balance sheet is absent or one of the four
\* rows or its prior-quarter value is missing, the change in working capital is
\* unknown, not computed with the missing term as zero, and the TTM formula is
\* not used.
C19_MissingNwcIsUnknown ==
    (FcffCalled /\ ~DeltaNwcKnown) =>
        /\ ~IsFinite(result.value.components.dNWC_TTM)
        /\ result.value.method # TtmMethod

\* build_fcff_path_via_roic was called and took the ROIC-based mode
RoicPathBuilt ==
    pc = "build_fcff_path_via_roic" /\ result # NoResult /\ ~NaiveMode(args.tkr)
\* the path before "if len(fcff) > 0 and fcff0 > 0"
Unscaled ==
    RoicFcff(Mul(safe(estimate_roic_and_reinvestment(args.tkr).nopat_ttm, NaN),
                 Sub(One, args.tax_rate)),
             safe(estimate_roic_and_reinvestment(args.tkr).invested_capital, NaN),
             args.growth_path)
\* a and b differ by no more than a millionth of b
Close(a, b) == Leq(AbsF(Sub(a, b)), Mul(AbsF(b), Dec(1, -6)))

\* C20 as stated: whenever the ROIC-based mode is taken the returned path
\* starts at fcff0, for every fcff0 and every NOPAT, and keeps the ratios
\* FCFF_t / FCFF_1 of the unscaled path.
C20_PathAnchoredAtFcff0 ==
    RoicPathBuilt =>
        /\ Close(result.value[1], args.fcff0)
        /\ \A i \in 1..Len(result.value) :
              Close(Mul(result.value[i], Unscaled[1]), Mul(Unscaled[i], result.value[1]))

PathCalled == pc = "build_fcff_path_via_roic" /\ result # NoResult
\* nopat0_raw and ic of build_fcff_path_via_roic
NopatRaw == safe(estimate_roic_and_reinvestment(args.tkr).nopat_ttm, NaN)
InvestedCapital == safe(estimate_roic_and_reinvestment(args.tkr).invested_capital, NaN)
KnownPositive(v) == IsFinite(v) /\ Greater(v, Zero)

RECURSIVE GrownNopat(_, _)
\* NOPAT of year i: nopat0_raw * (1 - tax_rate) grown by the growths of years 1..i
GrownNopat(gp, i) ==
    IF i = 0 THEN Mul(NopatRaw, Sub(One, args.tax_rate))
    ELSE Mul(GrownNopat(gp, i - 1), Add(One, gp[i]))

\* the reinvestment of year i of the unscaled ROIC path
Reinvestment(i) == Sub(GrownNopat(args.growth_path, i), Unscaled[i])

\* C21 as stated: build_fcff_path_via_roic returns the naive compounding path
\* from fcff0 whenever invested capital or NOPAT is unavailable or not positive,
\* takes the ROIC-based mode only when both are known and positive, and in that
\* mode each year's reinvestment lies in [0, 0.9 * NOPAT_t].
C21_NaiveUnlessBothPositive ==
    PathCalled =>
        IF KnownPositive(NopatRaw) /\ KnownPositive(InvestedCapital)
        THEN /\ result.value = Rescaled(Unscaled, args.fcff0)
             /\ \A i \in 1..Len(args.growth_path) :
                   /\ Leq(Zero, Reinvestment(i))
                   /\ Leq(Reinvestment(i),
                          Mul(GrownNopat(args.growth_path, i), Dec(9000001, -7)))
        ELSE result.value = NaivePath(args.fcff0, args.growth_path, 1)

WaccCalled == pc = "compute_wacc" /\ result # NoResult
\* market cap and debt are both zero, negative or unavailable
NoCapital ==
    /\ ~Greater(safe(args.info.marketCap, Zero), Zero)
    /\ ~Greater(safe(args.info.totalDebt, Zero), Zero)

\* C22 as stated: for every market cap, total debt, cost of equity in
\* [5%, 16%] and after-tax cost of debt, compute_wacc returns a WACC in
\* [5%, 15%], also when market cap and debt are both zero or unavailable.
C22_WaccInRange ==
    WaccCalled => (Leq(Milli(50), result.value) /\ Leq(result.value, Milli(150)))

\* C22 amended: compute_wacc returns a WACC in [5%, 15%] when market cap or
\* debt is positive; when both are zero or unavailable it returns the cost of
\* equity as it is, which lies in [5%, 16%].
C22_WaccInRangeOrCostOfEquity ==
    WaccCalled =>
        IF NoCapital THEN result.value = args.coe
        ELSE Leq(Milli(50), result.value) /\ Leq(result.value, Milli(150))

\* no capital and a cost of equity of 16%: the WACC is 16%
C22_Witness == WaccCalled /\ NoCapital /\ result.value = Milli(160)

VaryingCalled == pc = "pv_with_varying_wacc" /\ result # NoResult
RECURSIVE Chained(_, _)
\* the product of 1 / (1 + w_j) over j = 1..i
Chained(ws, i) == IF i = 0 THEN One ELSE Mul(Div(One, Add(One, ws[i])), Chained(ws, i - 1))
\* (1 + w) ** (-1) and (1 + w) ** (-1/2)
LastStep(w, midyear) == Div(One, IF midyear THEN SqrtF(Add(One, w)) ELSE Add(One, w))

\* C23: the discount factor of year t is the chained product of 1 / (1 + w_j)
\* over the years before t times (1 + w_t) ** (-1), or ** (-1/2) with midyear;
\* the factors are strictly decreasing in t; the terminal value is the Gordon
\* value at w_N and its present value is the terminal value times the full
\* chained product, whatever the midyear flag.
C23_ChainedDiscounting ==
    VaryingCalled =>
        LET N == Len(args.waccs)
            dfs == result.value.dfs
        IN  /\ Len(dfs) = N
            /\ \A t \in 1..N :
                  Close(dfs[t], Mul(Chained(args.waccs, t - 1),
                                    LastStep(args.waccs[t], args.midyear)))
            /\ \A t \in 1..(N - 1) : Less(dfs[t + 1], dfs[t])
            /\ Greater(Sub(args.waccs[N], args.terminal_growth), Dec(1, -6)) =>
                  Close(result.value.tv,
                        Div(Mul(args.fcff[N], Add(One, args.terminal_growth)),
                            Sub(args.waccs[N], args.terminal_growth)))
            /\ Close(result.value.pv_tv, Mul(result.value.tv, Chained(args.waccs, N)))

\* a midyear call over three years of different WACCs
C23_Witness ==
    /\ VaryingCalled /\ args.midyear
    /\ args.waccs = <<Milli(50), Milli(80), Milli(150)>>
    /\ Less(result.value.dfs[3], result.value.dfs[2])
    /\ Less(result.value.pv_tv, result.value.tv)

CodCalled == pc = "compute_cost_of_debt_after_tax" /\ result # NoResult
\* the quarterly interest and debt rows, and the average of the debt
QuarterlyInterest == _row(args.tkr.quarterly_financials, "Interest Expense")
QuarterlyDebt == _series_vals(_row(args.tkr.quarterly_balance_sheet, "Total Debt"), 4)
\* the annual EBIT and interest expense
AnnualEbit ==
    IF IsFinite(_first(_row(args.tkr.financials, "Ebit")))
    THEN _first(_row(args.tkr.financials, "Ebit"))
    ELSE _first(_row(args.tkr.financials, "Operating Income"))
AnnualInterest == _first(_row(args.tkr.financials, "Interest Expense"))
RouteOneApplies ==
    /\ ~args.raises
    /\ QuarterlyInterest # <<>> /\ QuarterlyDebt # <<>>
    /\ Greater(SumF(QuarterlyDebt), Zero)
RouteTwoApplies ==
    IsFinite(AnnualEbit) /\ IsFinite(AnnualInterest) /\ AnnualInterest # Zero

\* the pre-tax rate and the method of the first applicable route
ExpectedRoute ==
    IF RouteOneApplies
    THEN [pretax |-> clamp(Div(AbsF(_qsum(QuarterlyInterest, 4)),
                               Div(SumF(QuarterlyDebt), Int2F(Len(QuarterlyDebt)))),
                           Milli(10), Milli(120)),
          method |-> "avg(Interest_TTM)/avg(Debt_4Q)"]
    ELSE IF RouteTwoApplies
    THEN [pretax |-> result.value.pretax_cod, method |-> "coverage->spread"]
    ELSE [pretax |-> clamp(Add(args.rf, Milli(15)), Milli(30), Milli(120)),
          method |-> "fallback"]

\* C24 as stated: compute_cost_of_debt_after_tax returns the first applicable
\* of its three routes, the pre-tax rate of that route times (1 - tax rate), clamped
\* to [1%, 12%], [3%, 16%] and [3%, 12%], and names the route in the diagnostic; a
\* failure inside route 1 does not keep route 2 from being tried.
C24_FirstApplicableRoute ==
    CodCalled =>
        /\ result.value.method = ExpectedRoute.method
        /\ result.value.pretax_cod = ExpectedRoute.pretax
        /\ result.value.rate = Mul(ExpectedRoute.pretax, Sub(One, args.tax_rate))
        /\ result.value.method = "coverage->spread" =>
              /\ Leq(Milli(30), result.value.pretax_cod)
              /\ Leq(result.value.pretax_cod, Milli(160))

\* the annual EBIT and interest expense of the financials fin, and the interest
\* coverage they make, EBIT over the size of the interest expense
EbitOf(fin) ==
    IF IsFinite(_first(_row(fin, "Ebit"))) THEN _first(_row(fin, "Ebit"))
    ELSE _first(_row(fin, "Operating Income"))
InterestOf(fin) == _first(_row(fin, "Interest Expense"))
CoverageOf(fin) == Div(EbitOf(fin), AbsF(InterestOf(fin)))
\* the firms that route 2 rates
RatedFirms ==
    {fin \in DebtFinancials :
        IsFinite(EbitOf(fin)) /\ IsFinite(InterestOf(fin)) /\ InterestOf(fin) # Zero}
\* what the same call returns for the firm fin
RateOf(fin) ==
    cost_of_debt_call([args.tkr EXCEPT !.financials = fin], args.tax_rate, args.rf,
                      args.raises).pretax_cod
RouteTwoTaken == CodCalled /\ result.value.method = "coverage->spread"

\* C25 as stated: in route 2 the spread is non-increasing in the coverage, EBIT
\* over interest expense: a firm of higher coverage never pays more than one of
\* lower coverage, and a firm with a negative EBIT gets the 8.0% tier.
C25_SpreadFallsWithCoverage ==
    RouteTwoTaken =>
        /\ \A fin \in RatedFirms :
              Geq(CoverageOf(fin), CoverageOf(args.tkr.financials)) =>
                  Leq(RateOf(fin), result.value.pretax_cod)
        /\ Less(AnnualEbit, Zero) =>
              result.value.pretax_cod = clamp(Add(args.rf, Milli(80)), Milli(30), Milli(160))

TgCalled == pc = "tg_used" /\ result # NoResult
\* max(g_fcff_hist, revenue_cagr), the revenue CAGR counting only when known
GrowthSignal ==
    IF IsNone(args.g_rev_cagr) THEN args.g_fcff_hist
    ELSE IF Greater(args.g_rev_cagr, args.g_fcff_hist) THEN args.g_rev_cagr
    ELSE args.g_fcff_hist
MarginNudge ==
    IF Greater(args.margins, Milli(250)) THEN Milli(3)
    ELSE IF Less(args.margins, Milli(100)) THEN Neg(Milli(3))
    ELSE Zero
\* 0.4 x 4% + 0.4 x clamp(rf, 2%, 5%) + 0.2 x clamp(signal, 0%, 8%) + nudge
BlendedTg ==
    Add(Add(Add(Mul(Milli(400), Milli(40)), Mul(Milli(400), clamp(args.rf, Milli(20), Milli(50)))),
            Mul(Milli(200), clamp(GrowthSignal, Zero, Milli(80)))),
        MarginNudge)
\* the terminal growth used when the automatic one is clamped to [2%, top]
GrowthUsedIs(top) ==
    TgCalled =>
        result.value = IF IsNone(args.terminal_growth)
                       THEN clamp(BlendedTg, Milli(20), top)
                       ELSE clamp(args.terminal_growth, Milli(10), Milli(60))

\* C26 as stated: without an override the terminal growth used is the blend of
\* 4%, the risk-free rate and the growth signal, nudged by the operating margin
\* and clamped to [2%, 6%]; with an override it is clamp(override, 1%, 6%).
C26_TerminalGrowthToSix == GrowthUsedIs(Milli(60))

\* C26 amended: the automatic terminal growth is clamped to [2%, 5%].
C26_TerminalGrowthToFive == GrowthUsedIs(Milli(50))

\* a call without an override whose blend lies above 5% and is cut to 5%
C26_Witness ==
    /\ TgCalled /\ IsNone(args.terminal_growth)
    /\ Greater(BlendedTg, Milli(50)) /\ result.value = Milli(50)

EnrichCalled == pc = "enrich_with_fmp" /\ result # NoResult
\* what the enrichment provider supplies for a key of info, None when nothing
Supplied(key) ==
    IF key = "marketCap"
    THEN IF args.prof = <<>> THEN None ELSE DictGet(args.prof[1], "mktCap")
    ELSE IF key = "sharesOutstanding"
    THEN IF args.prof = <<>> THEN None ELSE DictGet(args.prof[1], "sharesOutstanding")
    ELSE IF args.bsq = <<>> THEN None
    ELSE IF ~IsNone(DictGet(args.bsq[1], "totalDebt")) THEN DictGet(args.bsq[1], "totalDebt")
    ELSE Add(DictGet(args.bsq[1], "shortTermDebt"), DictGet(args.bsq[1], "longTermDebt"))
EnrichedKeys == {"marketCap", "sharesOutstanding", "totalDebt"}

\* C27 as stated: in the mapping enrich_with_fmp returns, a non-null primary
\* value of marketCap, sharesOutstanding and totalDebt is kept, and a missing or
\* null one is replaced by the enrichment provider's value when it supplies one.
C27_NullsAreFilled ==
    EnrichCalled =>
        \A key \in EnrichedKeys :
            IF IsNum(args.info[key]) THEN result.value[key] = args.info[key]
            ELSE IsNum(Supplied(key)) => result.value[key] = Supplied(key)

BothModesCalled == pc = "constant_rate" /\ result # NoResult
\* the two modes return the same three values, up to rounding
ModesAgree ==
    /\ Returned(result.static)
    /\ Close(result.dynamic.pv_explicit, result.static.pv_explicit)
    /\ Close(result.dynamic.tv, result.static.terminal_value)
    /\ Close(result.dynamic.pv_tv, result.static.pv_terminal)

\* C28 as stated: for every FCFF path, every constant WACC w above -1 and every
\* terminal growth g, g >= w and 0 < w - g <= 0.001 included, pv_with_varying_wacc
\* over [w, ..., w] without mid-year returns the PV of the explicit FCFF, the
\* terminal value and its PV that dcf_valuation returns for wacc = w.
C28_ModesAgreeOnConstantRate == BothModesCalled => ModesAgree

WaccPathCalled == pc = "build_wacc_path" /\ result # NoResult
\* the distance of the beta of year t from 1
BetaGap(t) == AbsF(Sub(result.weights[t].beta_t, One))
\* the weights of year t sum to 1
WeightsSumToOne(t) == Close(Add(result.weights[t].we, result.weights[t].wd), One)
\* the debt weight, the beta and the WACC of year t lie in their ranges
YearInRange(t) ==
    /\ Leq(Zero, result.weights[t].wd) /\ Leq(result.weights[t].wd, Milli(950))
    /\ Leq(PyMin(One, args.base_beta), result.weights[t].beta_t)
    /\ Leq(result.weights[t].beta_t, PyMax(One, args.base_beta))
    /\ t > 1 => Leq(BetaGap(t), BetaGap(t - 1))
    /\ Leq(Milli(50), result.waccs[t]) /\ Leq(result.waccs[t], Milli(150))

\* C29 as stated: in every year of build_wacc_path the weights sum to 1,
\* we_t + wd_t = 1 with wd_t in [0, 0.95], for every market cap and debt, a debt
\* of zero included; beta_t lies between 1.0 and the base beta and never moves
\* away from 1.0; each WACC lies in [5%, 15%].
C29_WeightsSumToOne ==
    WaccPathCalled =>
        \A t \in 1..args.years : WeightsSumToOne(t) /\ YearInRange(t)

(***************************************************************************)
(* Properties of the watchlist, checked under SpecWatchlist                *)
(***************************************************************************)
InsertCalled == pc = "watchlist" /\ result # NoResult
\* no two rows of the table hold the same value
NoRowTwice(rows) == \A i, j \in DOMAIN rows : rows[i] = rows[j] => i = j
\* the tickers of the ticker table
TickerKeys == [i \in DOMAIN store.ticker |-> store.ticker[i].ticker]
\* fetch_userlist reported the ticker of the call for its user before the call
AlreadyReported == \E i \in DOMAIN prev.userlist : prev.userlist[i].ticker = args.ticker

\* C30 as stated: after any sequence of insert_user_ticker calls the watchlist
\* of a user holds each ticker at most once: a call for a ticker that
\* fetch_userlist already reports for the user inserts no userticker row and
\* returns "Ticker already in user list", and the ticker table holds at most one
\* row per ticker.
C30_EachTickerOnce ==
    InsertCalled =>
        /\ NoRowTwice(store.userticker)
        /\ NoRowTwice(TickerKeys)
        /\ AlreadyReported =>
              /\ store.userticker = prev.rows
              /\ result.message = "Ticker already in user list"

====
